---- MODULE Spec2Model ----
(***************************************************************************)
(* Model of the pitchfork scraper's registry and fetch layer.              *)
(*                                                                         *)
(* scraper/globals.py holds, per namespace, a dict natural key -> id and   *)
(* a counter.  general.get_url_id and the album extractors guard their     *)
(* check / insert / increment sequence with `with g.lock:`;               *)
(* author.scrape_authors_type takes no lock.  db.initialize_database       *)
(* either rebuilds the store (hard reset) or reloads the dicts from it.    *)
(*                                                                         *)
(* globals.py binds urls_lock, labels_lock, ... but no name `lock`, so     *)
(* `with g.lock:` raises AttributeError unless the importing code has      *)
(* bound scraper.globals.lock itself.  lock_bound records which of the two *)
(* holds for a run; FALSE is the module as it is written.                  *)
(***************************************************************************)
EXTENDS Integers, Sequences, FiniteSets, TLC

\* ---------------------------------------------------------------- bounds
Workers == {"w1", "w2"}
Keys == {"a", "b"}
MaxCalls == 2
num_retrys == 2
MaxPages == 1

\* ------------------------------------------------------------- constants
NoneKey == "None"
LockedNS == {"urls", "artists", "labels", "genres", "keywords", "entities"}
Namespaces == LockedNS \cup {"author_types"}
ExtractorNS == LockedNS \ {"urls"}
SetNS == {"albums", "authors"}
\* the tables of the author pages: rows only, no registry
RowTables == {"author_bios", "author_type_evolution"}
Tables == Namespaces \cup SetNS \cup RowTables

VARIABLES
    lock_bound,   \* whether scraper.globals has an attribute `lock`
    lock,         \* holder of g.lock: "free" or a worker
    dict,         \* g.<ns>_dict: namespace -> (key -> id)
    counter,      \* g.<ns>_id_counter
    file_exists,  \* the store file exists
    table,        \* store: namespace -> sequence of <<id, key>> rows
    events,       \* store: scraping_events rows, in insertion order
    phase,        \* "boot": process imported, store not opened; "run"
    epoch,        \* 0: the first script's process, 1: the second's
    calls,        \* calls dispatched in this process
    seed,         \* the dicts as initialize_database left them
    reloaded,     \* this process took the __initialize_globals branch
    pc,           \* worker -> position
    call,         \* worker -> the call it executes
    loc,          \* worker -> local variables of the call
    returns,      \* results handed back to callers in this process
    sets,         \* g.albums_set, g.authors_set
    batch,        \* the album-review batch of Scrape_Pitchfork_Sitemap.py
    tsc           \* an instance of types.TSCDict: its lock, data and counter

vars == <<lock_bound, lock, dict, counter, file_exists, table, events, phase,
          epoch, calls, seed, reloaded, pc, call, loc, returns, sets, batch,
          tsc>>

\* --------------------------------------------------------------- helpers
NoCall == [op |-> "none", ns |-> "none", key |-> NoneKey, ats |-> <<>>,
           cid |-> 0, num_retrys |-> 0, url_id |-> 0, rows |-> <<>>]

NoLoc == [is_new |-> FALSE, id |-> 0, tmp |-> 0, i |-> 1, out |-> <<>>,
          page |-> "None", attempts |-> 0, failed |-> 0, sleeps |-> 0,
          row |-> 0]

\* the driver before its album-review batch
NoBatch == [stage |-> "none", pass |-> 0, retries |-> 0, todo |-> {},
            ran |-> <<>>]

\* TSCDict(): initial_data {None: 0}, counter 1, a threading.Lock
NewTSCDict == [lock |-> "free", data |-> (NoneKey :> 0), counter |-> 1]

\* d[k] = v, adding k when absent (dict.__setitem__)
SetItem(d, k, v) == [x \in (DOMAIN d) \cup {k} |-> IF x = k THEN v ELSE d[x]]

\* pandas Series.to_dict over rows <<id, key>> indexed by key: a later row
\* for the same key replaces an earlier one
RECURSIVE ToDict(_)
ToDict(rows) ==
    IF rows = <<>> THEN <<>>
    ELSE LET n == Len(rows)
             d == ToDict(SubSeq(rows, 1, n - 1))
         IN  SetItem(d, rows[n][2], rows[n][1])

ImportDict == [ns \in Namespaces |-> (NoneKey :> 0)]
ImportCounter == [ns \in Namespaces |-> 1]

\* albums_set = set(), authors_set = set()
ImportSets == [albums |-> {}, authors |-> {}]

\* the null rows of every registry table and the two "no author" rows;
\* author ids are strings here, the first stands for the integer 0
NullRows ==
    [tb \in Tables |->
        CASE tb \in Namespaces -> << <<0, NoneKey>> >>
          [] tb = "authors" -> << <<"0", "Pitchfork_no_id">>,
                                 <<"592604b17fd06e5349102f34",
                                   "Pitchfork_with_id">> >>
          [] OTHER -> <<>>]

Max(S) == CHOOSE x \in S : \A y \in S : y <= x

Range(f) == {f[x] : x \in DOMAIN f}

\* ------------------------------------------------------------------ Init
Init ==
    /\ lock_bound \in BOOLEAN
    /\ lock = "free"
    /\ dict = ImportDict
    /\ counter = ImportCounter
    /\ file_exists = FALSE
    /\ table = [tb \in Tables |-> <<>>]
    /\ events = <<>>
    /\ phase = "boot"
    /\ epoch = 0
    /\ calls = 0
    /\ seed = ImportDict
    /\ reloaded = FALSE
    /\ pc = [t \in Workers |-> "idle"]
    /\ call = [t \in Workers |-> NoCall]
    /\ loc = [t \in Workers |-> NoLoc]
    /\ returns = {}
    /\ sets = ImportSets
    /\ batch = NoBatch
    /\ tsc = NewTSCDict

\* ------------------------------------------------- db.initialize_database
InitializeGlobals == [ns \in Namespaces |-> ToDict(table[ns])]

\* set(read_sql("SELECT album_id FROM albums")...), the same for authors
InitializeSets ==
    [sn \in SetNS |-> {table[sn][i][1] : i \in DOMAIN table[sn]}]

InitializeDatabase(hard_reset) ==
    /\ phase = "boot"
    /\ LET hr == hard_reset \/ ~file_exists IN
       IF hr
       THEN /\ table' = NullRows
            /\ events' = <<>>
            /\ file_exists' = TRUE
            /\ dict' = dict
            /\ sets' = sets
            /\ reloaded' = FALSE
       ELSE /\ dict' = InitializeGlobals
            /\ sets' = InitializeSets
            /\ reloaded' = TRUE
            /\ UNCHANGED <<tsc, table, events, file_exists>>
    /\ seed' = dict'
    /\ phase' = "run"
    /\ UNCHANGED <<tsc, batch, lock_bound, lock, counter, epoch, calls, pc, call,
                   loc, returns>>

\* Scrape_Pitchfork.py runs two scripts one after the other, each in a
\* process of its own: the first process ends and the second imports
\* scraper.globals afresh and opens the store the first one left
Restart ==
    /\ phase = "run"
    /\ \A t \in Workers : pc[t] = "idle"
    /\ epoch = 0
    /\ epoch' = epoch + 1
    /\ phase' = "boot"
    /\ dict' = ImportDict
    /\ counter' = ImportCounter
    /\ seed' = ImportDict
    /\ reloaded' = FALSE
    /\ lock' = "free"
    /\ calls' = 0
    /\ call' = [t \in Workers |-> NoCall]
    /\ loc' = [t \in Workers |-> NoLoc]
    /\ returns' = {}
    /\ sets' = ImportSets
    /\ UNCHANGED <<tsc, batch, lock_bound, file_exists, table, events, pc>>

\* ------------------------------------------------------------ dispatching
Idle(t) == phase = "run" /\ pc[t] = "idle" /\ calls < MaxCalls

StartCall(t, c, first) ==
    /\ calls' = calls + 1
    /\ call' = [call EXCEPT ![t] = [c EXCEPT !.cid = call[t].cid + 1]]
    /\ loc' = [loc EXCEPT ![t] = NoLoc]
    /\ pc' = [pc EXCEPT ![t] = first]
    /\ UNCHANGED <<tsc, sets, lock_bound, lock, dict, counter, file_exists, table,
                   events, phase, epoch, seed, reloaded, returns>>

Dispatch(t, c, first) ==
    Idle(t) /\ StartCall(t, c, first) /\ UNCHANGED batch

\* what one call of function fn handed back: status "ok" with (is_new, id)
\* or val, or the exception it raised
Ret(t, fn, status, is_new, id, key, idx, val) ==
    [cid |-> call[t].cid, w |-> t, fn |-> fn, ns |-> call[t].ns, key |-> key,
     idx |-> idx, status |-> status, is_new |-> is_new, id |-> id,
     val |-> val,
     stat |-> <<loc[t].attempts, loc[t].failed, loc[t].sleeps>>,
     fails |-> {}]

LookupFn(t) == IF call[t].ns = "urls" THEN "get_url_id" ELSE "extractor"

\* the functions that fetch a page: parse_url itself and its three callers
PageOps == {"scrape_album_review", "author.scrape_json_data",
            "get_weekly_urls_in_a_year"}

FetchOps == {"parse_url"} \cup PageOps

\* sitemap.get_urls_inside_a_weekly_url: general.get_url_id(u) for a listed u
CallGetUrlId(t) ==
    \E u \in Keys :
        Dispatch(t, [NoCall EXCEPT !.op = "get_url_id", !.ns = "urls",
                                   !.key = u], "with_lock")

\* the registry lookup in the loop body of an album extractor; a review
\* without a label list looks up the label None
ExtractorKeys(ns) == IF ns = "labels" THEN Keys \cup {NoneKey} ELSE {"a"}

CallExtractor(t) ==
    \E ns \in ExtractorNS :
        \E k \in ExtractorKeys(ns) :
            Dispatch(t, [NoCall EXCEPT !.op = "extractor", !.ns = ns,
                                       !.key = k], "with_lock")

\* ------------------------------------------- the `with g.lock:` sequence
\* evaluating g.lock when scraper.globals has no such attribute
LockUnbound(t) ==
    /\ pc[t] = "with_lock"
    /\ ~lock_bound
    /\ returns' = returns \cup
           {Ret(t, call[t].op, "AttributeError", FALSE, 0, call[t].key, 1, "none")}
    /\ pc' = [pc EXCEPT ![t] = "idle"]
    /\ UNCHANGED <<tsc, sets, batch, lock_bound, lock, dict, counter, file_exists, table,
                   events, phase, epoch, calls, seed, reloaded, call, loc>>

Acquire(t) ==
    /\ pc[t] = "with_lock"
    /\ lock_bound
    /\ lock = "free"
    /\ lock' = t
    /\ pc' = [pc EXCEPT ![t] = "check"]
    /\ UNCHANGED <<tsc, sets, batch, lock_bound, dict, counter, file_exists, table, events,
                   phase, epoch, calls, seed, reloaded, call, loc, returns>>

\* is_new = key not in g.<ns>_dict
CheckBody(t) ==
    LET new == call[t].key \notin DOMAIN dict[call[t].ns] IN
    /\ loc' = [loc EXCEPT ![t].is_new = new]
    /\ pc' = [pc EXCEPT ![t] = IF new THEN "insert" ELSE "fetch"]

Check(t) ==
    /\ pc[t] = "check"
    /\ CheckBody(t)
    /\ UNCHANGED <<tsc, sets, batch, lock_bound, lock, dict, counter, file_exists, table,
                   events, phase, epoch, calls, seed, reloaded, call, returns>>

\* id = g.<ns>_id_counter ; g.<ns>_dict[key] = id
InsertBody(t) ==
    LET ns == call[t].ns IN
    /\ loc' = [loc EXCEPT ![t].id = counter[ns]]
    /\ dict' = [dict EXCEPT ![ns] = SetItem(@, call[t].key, counter[ns])]

Insert(t) ==
    /\ pc[t] = "insert"
    /\ InsertBody(t)
    /\ pc' = [pc EXCEPT ![t] = "incr"]
    /\ UNCHANGED <<tsc, sets, batch, lock_bound, lock, counter, file_exists, table, events,
                   phase, epoch, calls, seed, reloaded, call, returns>>

\* g.<ns>_id_counter += 1
Increment(t) ==
    /\ pc[t] = "incr"
    /\ counter' = [counter EXCEPT ![call[t].ns] = @ + 1]
    /\ pc' = [pc EXCEPT ![t] = "release"]
    /\ UNCHANGED <<tsc, sets, batch, lock_bound, lock, dict, file_exists, table, events,
                   phase, epoch, calls, seed, reloaded, call, loc, returns>>

\* id = g.<ns>_dict[key]
Fetch(t) ==
    /\ pc[t] = "fetch"
    /\ loc' = [loc EXCEPT ![t].id = dict[call[t].ns][call[t].key]]
    /\ pc' = [pc EXCEPT ![t] = "release"]
    /\ UNCHANGED <<tsc, sets, batch, lock_bound, lock, dict, counter, file_exists, table,
                   events, phase, epoch, calls, seed, reloaded, call, returns>>

\* leaving the with block and returning (is_new, id)
AfterLookup(t) ==
    CASE call[t].op = "get_url_id" -> "sitemap_insert"
      [] call[t].op \in FetchOps -> "loop"
      [] OTHER -> "idle"

Release(t) ==
    /\ pc[t] = "release"
    /\ lock' = "free"
    /\ returns' = returns \cup
           {Ret(t, LookupFn(t), "ok", loc[t].is_new, loc[t].id, call[t].key, 1, "id")}
    /\ pc' = [pc EXCEPT ![t] = AfterLookup(t)]
    /\ UNCHANGED <<tsc, sets, batch, lock_bound, dict, counter, file_exists, table, events,
                   phase, epoch, calls, seed, reloaded, call, loc>>

\* sitemap.scrape_sitemap_year: db.insert_named_tuples(get_connection, urls)
SitemapInsert(t) ==
    /\ pc[t] = "sitemap_insert"
    /\ table' = [table EXCEPT !["urls"] = Append(@, <<loc[t].id, call[t].key>>)]
    /\ pc' = [pc EXCEPT ![t] = "idle"]
    /\ UNCHANGED <<tsc, sets, batch, lock_bound, lock, dict, counter, file_exists, events,
                   phase, epoch, calls, seed, reloaded, call, loc, returns>>

Lookup(t) ==
    \/ LockUnbound(t)
    \/ Acquire(t)
    \/ Check(t)
    \/ Insert(t)
    \/ Increment(t)
    \/ Fetch(t)
    \/ Release(t)

\* --------------------------------------------- author.scrape_authors_type
\* ats: the two observations get_author_type returned (paths 1 and 2).
\* scrape_authors_page reaches this call only with a fetched page, that is
\* after parse_url and its get_url_id have returned.
CallAuthorsType(t) ==
    /\ lock_bound
    /\ \E x1 \in Keys \cup {NoneKey} : \E x2 \in Keys \cup {NoneKey} :
        Dispatch(t, [NoCall EXCEPT !.op = "scrape_authors_type",
                                   !.ns = "author_types",
                                   !.ats = <<x1, x2>>], "at_check")

AtKey(t) == call[t].ats[loc[t].i]

\* is_new_author_type = author_type not in g.author_types_dict
AtCheck(t) ==
    /\ pc[t] = "at_check"
    /\ LET new == AtKey(t) \notin DOMAIN dict["author_types"] IN
        /\ loc' = [loc EXCEPT ![t].is_new = new]
        /\ pc' = [pc EXCEPT ![t] = IF new THEN "at_load" ELSE "at_read"]
    /\ UNCHANGED <<tsc, sets, batch, lock_bound, lock, dict, counter, file_exists, table,
                   events, phase, epoch, calls, seed, reloaded, call, returns>>

\* the read of g.author_types_id_counter on the right of the assignment
AtLoad(t) ==
    /\ pc[t] = "at_load"
    /\ loc' = [loc EXCEPT ![t].tmp = counter["author_types"]]
    /\ pc' = [pc EXCEPT ![t] = "at_store"]
    /\ UNCHANGED <<tsc, sets, batch, lock_bound, lock, dict, counter, file_exists, table,
                   events, phase, epoch, calls, seed, reloaded, call, returns>>

\* g.author_types_dict[author_type] = <value read>
AtStore(t) ==
    /\ pc[t] = "at_store"
    /\ dict' = [dict EXCEPT !["author_types"] = SetItem(@, AtKey(t), loc[t].tmp)]
    /\ pc' = [pc EXCEPT ![t] = "at_load2"]
    /\ UNCHANGED <<tsc, sets, batch, lock_bound, lock, counter, file_exists, table, events,
                   phase, epoch, calls, seed, reloaded, call, loc, returns>>

\* g.author_types_id_counter += 1, the read
AtLoad2(t) ==
    /\ pc[t] = "at_load2"
    /\ loc' = [loc EXCEPT ![t].tmp = counter["author_types"]]
    /\ pc' = [pc EXCEPT ![t] = "at_incr"]
    /\ UNCHANGED <<tsc, sets, batch, lock_bound, lock, dict, counter, file_exists, table,
                   events, phase, epoch, calls, seed, reloaded, call, returns>>

\* g.author_types_id_counter += 1, the write
AtIncrValue(t) == loc[t].tmp + 1

AtIncr(t) ==
    /\ pc[t] = "at_incr"
    /\ counter' = [counter EXCEPT !["author_types"] = AtIncrValue(t)]
    /\ pc' = [pc EXCEPT ![t] = "at_read"]
    /\ UNCHANGED <<tsc, sets, batch, lock_bound, lock, dict, file_exists, table, events,
                   phase, epoch, calls, seed, reloaded, call, loc, returns>>

\* author_type_id = g.author_types_dict[author_type]; append; next or return
AtRead(t) ==
    /\ pc[t] = "at_read"
    /\ LET id == dict["author_types"][AtKey(t)]
           out == Append(loc[t].out, [is_new |-> loc[t].is_new, id |-> id,
                                      key |-> AtKey(t)])
       IN  /\ loc' = [loc EXCEPT ![t].out = out, ![t].id = id,
                                 ![t].i = loc[t].i + 1]
           /\ returns' = returns \cup
                  {Ret(t, "scrape_authors_type", "ok", loc[t].is_new, id,
                      AtKey(t), loc[t].i, "id")}
           /\ pc' = [pc EXCEPT ![t] = IF loc[t].i < Len(call[t].ats)
                                       THEN "at_check" ELSE "at_persist"]
    /\ UNCHANGED <<tsc, sets, batch, lock_bound, lock, dict, counter, file_exists, table,
                   events, phase, epoch, calls, seed, reloaded, call>>

\* scrape_authors_page: insert_named_tuple for every new author type
RECURSIVE NewTypeRows(_)
NewTypeRows(out) ==
    IF out = <<>> THEN <<>>
    ELSE (IF Head(out).is_new THEN << <<Head(out).id, Head(out).key>> >>
          ELSE <<>>) \o NewTypeRows(Tail(out))

AtPersist(t) ==
    /\ pc[t] = "at_persist"
    /\ table' = [table EXCEPT !["author_types"] = @ \o NewTypeRows(loc[t].out)]
    /\ pc' = [pc EXCEPT ![t] = "idle"]
    /\ UNCHANGED <<tsc, sets, batch, lock_bound, lock, dict, counter, file_exists, events,
                   phase, epoch, calls, seed, reloaded, call, loc, returns>>

AuthorsType(t) ==
    \/ AtCheck(t)
    \/ AtLoad(t)
    \/ AtStore(t)
    \/ AtLoad2(t)
    \/ AtIncr(t)
    \/ AtRead(t)
    \/ AtPersist(t)

\* ----------------------------------------------------------------- Spec
\* the lock-guarded namespaces: sitemap and album extractors
Next ==
    \/ \E h \in BOOLEAN : InitializeDatabase(h)
    \/ Restart
    \/ \E t \in Workers : CallGetUrlId(t)
    \/ \E t \in Workers : CallExtractor(t)
    \/ \E t \in Workers : Lookup(t)
    \/ \E t \in Workers : SitemapInsert(t)

Spec == Init /\ [][Next]_vars

\* the Author_Type namespace: author pages
NextAuthor ==
    \/ \E h \in BOOLEAN : InitializeDatabase(h)
    \/ \E t \in Workers : CallAuthorsType(t)
    \/ \E t \in Workers : AuthorsType(t)

AuthorSpec == Init /\ [][NextAuthor]_vars

\* --------------------------------------------------- general.parse_url
\* URLs are interchangeable names: the first URL ever fetched is called "a"
FetchKeys == IF "a" \in DOMAIN dict["urls"] THEN Keys ELSE {"a"}

CallParseUrl(t) ==
    \E u \in FetchKeys :
        Dispatch(t, [NoCall EXCEPT !.op = "parse_url", !.ns = "urls",
                                   !.key = u, !.num_retrys = num_retrys],
                 "with_lock")

Event(t, process, message) ==
    [url_id |-> loc[t].id, process |-> process, success |-> 0,
     message |-> message, by |-> <<t, call[t].cid>>]

\* range(num_retrys) is exhausted
LoopExhausted_OffByOne(t) == loc[t].attempts > call[t].num_retrys

LoopExhausted(t) == loc[t].attempts >= call[t].num_retrys

InLoop(t) == pc[t] = "loop" /\ ~LoopExhausted(t)

\* r.get raises: the except block
ExceptRows(t) ==
    IF loc[t].is_new THEN << <<loc[t].id, call[t].key>> >> ELSE <<>>

ExceptEvents(t) == << Event(t, "Connection failed", "traceback") >>

ExceptSleeps(t) == loc[t].sleeps + 1

GetRaises(t) ==
    /\ InLoop(t)
    /\ table' = [table EXCEPT !["urls"] = @ \o ExceptRows(t)]
    /\ events' = events \o ExceptEvents(t)
    /\ loc' = [loc EXCEPT ![t].attempts = @ + 1, ![t].failed = @ + 1,
                          ![t].sleeps = ExceptSleeps(t)]
    /\ UNCHANGED <<tsc, sets, batch, lock_bound, lock, dict, counter, file_exists, phase,
                   epoch, calls, seed, reloaded, pc, call, returns>>

\* r.get returns a response whose status_code is not 200
GetNon200(t) ==
    /\ InLoop(t)
    /\ loc' = [loc EXCEPT ![t].attempts = @ + 1, ![t].failed = @ + 1,
                          ![t].page = "non200"]
    /\ UNCHANGED <<tsc, sets, batch, lock_bound, lock, dict, counter, file_exists, table,
                   events, phase, epoch, calls, seed, reloaded, pc, call,
                   returns>>

\* r.get returns a 200 response: break
After200(t) == "after"

Get200(t) ==
    /\ InLoop(t)
    /\ loc' = [loc EXCEPT ![t].attempts = @ + 1, ![t].page = "200"]
    /\ pc' = [pc EXCEPT ![t] = After200(t)]
    /\ UNCHANGED <<tsc, sets, batch, lock_bound, lock, dict, counter, file_exists, table,
                   events, phase, epoch, calls, seed, reloaded, call, returns>>

LoopEnd(t) ==
    /\ pc[t] = "loop"
    /\ LoopExhausted(t)
    /\ pc' = [pc EXCEPT ![t] = "after"]
    /\ UNCHANGED <<tsc, sets, batch, lock_bound, lock, dict, counter, file_exists, table,
                   events, phase, epoch, calls, seed, reloaded, call, loc,
                   returns>>

\* page.status_code if page else "No Response": bool(page) is page.ok, False
\* for a 4xx or 5xx response and True for any other status
FinalMessage(page) ==
    IF page = "None" THEN {"No Response"} ELSE {"status_code", "No Response"}

\* parse_url returns to the function that called it
AfterParseUrl(t) == IF call[t].op = "parse_url" THEN "idle" ELSE "soup"

\* if page is None or page.status_code != 200: log, return None; else parse
AfterLoop(t) ==
    /\ pc[t] = "after"
    /\ IF loc[t].page # "200"
       THEN /\ \E m \in FinalMessage(loc[t].page) :
                   events' = Append(events, Event(t, "Connection failed", m))
            /\ returns' = returns \cup
                   {Ret(t, "parse_url", "ok", loc[t].is_new, loc[t].id,
                        call[t].key, 1, "None")}
       ELSE /\ events' = events
            /\ returns' = returns \cup
                   {Ret(t, "parse_url", "ok", loc[t].is_new, loc[t].id,
                        call[t].key, 1, "doc")}
    /\ pc' = [pc EXCEPT ![t] = AfterParseUrl(t)]
    /\ UNCHANGED <<tsc, sets, batch, lock_bound, lock, dict, counter, file_exists, table,
                   phase, epoch, calls, seed, reloaded, call, loc>>

ParseUrl(t) ==
    \/ GetRaises(t)
    \/ GetNon200(t)
    \/ Get200(t)
    \/ LoopEnd(t)
    \/ AfterLoop(t)

\* parse_url against a server that is unreachable or answers 200
TransportFetch(t) ==
    \/ GetRaises(t)
    \/ Get200(t)
    \/ LoopEnd(t)
    \/ AfterLoop(t)

\* the fetch layer: workers calling parse_url
NextFetch ==
    \/ \E h \in BOOLEAN : InitializeDatabase(h)
    \/ \E t \in Workers : CallParseUrl(t)
    \/ \E t \in Workers : Lookup(t)
    \/ \E t \in Workers : ParseUrl(t)

FetchSpec == Init /\ [][NextFetch]_vars

\* ------------------------------------------------- the callers of parse_url
\* the row the urls table holds for URL u, as (url_id, url) reaches the
\* album and author handlers
PageRowId(u) == IF u = "a" THEN 1 ELSE 2

\* name, album id, author id ... found in the payload of a page
PageKey == "a"
AuthorUrl == "author_url"
ArtistUrl == "artist_url"

\* the sections of scrape_album_review, in the order of its dict
Sections == <<"review", "albums", "authors", "artists", "entities",
              "keywords">>

SectionSet == {Sections[i] : i \in DOMAIN Sections}

\* how many lists the extractor of a section returns
ListsOf(section) ==
    CASE section = "review" -> 4
      [] section = "albums" -> 2
      [] section = "authors" -> 3
      [] section = "artists" -> 5
      [] section = "entities" -> 2
      [] section = "keywords" -> 2

\* what the two JSON payloads of a fetched page do when they are extracted
JsonShapes(op) ==
    IF op = "scrape_album_review"
    THEN {"ok", "preload_raises", "linked_raises"}
    ELSE IF op = "author.scrape_json_data" THEN {"ok", "preload_raises"}
    ELSE {"ok"}

\* the sets of sections whose extractor raises on a page: none, any one,
\* every second one, or all of them
FailSets ==
    {{}} \cup {{sec} : sec \in SectionSet} \cup
    {{Sections[i] : i \in {j \in DOMAIN Sections : j % 2 = 0}}, SectionSet}

\* a page that every extractor accepts
WellFormed == {{}}

\* the review the sitemap lists
BatchUrls == {PageKey}

AllIdle == \A t \in Workers : pc[t] = "idle"

\* the sitemap stage is over when the pages are scraped
SitemapOver ==
    \A t \in Workers : call[t].op = "get_url_id" => pc[t] = "idle"

\* the pages handed to the handlers so far
PageCalls ==
    Cardinality({r \in returns : r.fn \in PageOps}) +
    Cardinality({t \in Workers : call[t].op \in PageOps /\ pc[t] # "idle"})

\* the sitemap stage, which comes before every page batch: a listed review
\* URL gets its id and its row
ListReview(t) ==
    /\ batch.stage = "none"
    /\ PageCalls = 0
    /\ Idle(t)
    /\ \E u \in BatchUrls :
           StartCall(t, [NoCall EXCEPT !.op = "get_url_id", !.ns = "urls",
                                       !.key = u], "with_lock")
    /\ batch' = [batch EXCEPT !.stage = "sitemap"]

\* the pool hands an item to an idle thread; its threads are
\* interchangeable, so one idle thread stands for all of them
IdleThread(t) ==
    /\ pc[t] = "idle"
    /\ t = CHOOSE u \in {x \in Workers : pc[x] = "idle"} : TRUE

CallPage(t, ops) ==
    /\ phase = "run"
    /\ IdleThread(t)
    /\ SitemapOver
    /\ PageCalls < MaxPages
    /\ \E op \in ops : \E u \in FetchKeys :
           StartCall(t, [NoCall EXCEPT !.op = op, !.ns = "urls", !.key = u,
                                       !.num_retrys = num_retrys,
                                       !.url_id = PageRowId(u)],
                     "with_lock")
    /\ UNCHANGED batch

\* an event written by the caller, which knows the url_id it was given
CallerEvent_NullId(t, process) ==
    [url_id |-> 0, process |-> process, success |-> 0,
     message |-> "traceback", by |-> <<t, call[t].cid>>]

CallerEvent(t, process) ==
    [url_id |-> call[t].url_id, process |-> process, success |-> 0,
     message |-> "traceback", by |-> <<t, call[t].cid>>]

\* soup is None
SoupNone(t) == loc[t].page # "200"

\* the callers that log a terminal event when soup is None
TerminalLoggers_All == PageOps

TerminalLoggers == {"scrape_album_review"}

TerminalEvents(t) ==
    IF call[t].op \in TerminalLoggers
    THEN << CallerEvent(t, "Couldn't stablish connection") >>
    ELSE <<>>

\* if soup is None: (log and) return None
FetchFailed_Never(t) == FALSE

FetchFailed(t) == SoupNone(t)

\* what a page handler hands back; fails: the sections whose extractor
\* raised
RetPage(t, val, fails) ==
    [Ret(t, call[t].op, "ok", loc[t].is_new, loc[t].id, call[t].key, 1, val)
        EXCEPT !.fails = fails]

PageNone(t) ==
    /\ pc[t] = "soup"
    /\ FetchFailed(t)
    /\ events' = events \o TerminalEvents(t)
    /\ returns' = returns \cup {RetPage(t, "None", {})}
    /\ pc' = [pc EXCEPT ![t] = "idle"]
    /\ UNCHANGED <<tsc, sets, batch, lock_bound, lock, dict, counter, file_exists,
                   table, phase, epoch, calls, seed, reloaded, call, loc>>

JsonProcess(j) ==
    IF j = "preload_raises" THEN "Failed at parsing json preload data"
    ELSE "Failed at parsing json linked data"

\* extracting the JSON payloads of the fetched page raises: log, return None
JsonRaises(t) ==
    /\ pc[t] = "soup"
    /\ ~FetchFailed(t)
    /\ \E j \in JsonShapes(call[t].op) \ {"ok"} :
           events' = Append(events, CallerEvent(t, JsonProcess(j)))
    /\ returns' = returns \cup {RetPage(t, "no_json", {})}
    /\ pc' = [pc EXCEPT ![t] = "idle"]
    /\ UNCHANGED <<tsc, sets, batch, lock_bound, lock, dict, counter, file_exists,
                   table, phase, epoch, calls, seed, reloaded, call, loc>>

\* author.scrape_json_data and get_weekly_urls_in_a_year return their data
JsonReturn(t) ==
    /\ pc[t] = "soup"
    /\ ~FetchFailed(t)
    /\ call[t].op # "scrape_album_review"
    /\ returns' = returns \cup {RetPage(t, "data", {})}
    /\ pc' = [pc EXCEPT ![t] = "idle"]
    /\ UNCHANGED <<tsc, sets, batch, lock_bound, lock, dict, counter, file_exists,
                   table, events, phase, epoch, calls, seed, reloaded, call,
                   loc>>

\* ---------------------------------------------------- album.scrape_section
\* st: the registry, the sets and the event log while the sections run
\* if key not in dict: dict[key] = counter; counter += 1
RegKey(st, ns, k) ==
    IF k \in DOMAIN st.dict[ns] THEN st
    ELSE [st EXCEPT !.dict[ns] = SetItem(@, k, st.counter[ns]),
                    !.counter[ns] = @ + 1]

\* if id not in set: set.add(id)
AddKey(st, sn, k) == [st EXCEPT !.sets[sn] = @ \cup {k}]

\* the registry work of the extractor of a section
Extract(st, t, section) ==
    CASE section = "review" ->
             RegKey(RegKey(st, "urls", call[t].key), "labels", PageKey)
      [] section = "albums" -> AddKey(st, "albums", PageKey)
      [] section = "authors" ->
             AddKey(RegKey(st, "urls", AuthorUrl), "authors", PageKey)
      [] section = "artists" ->
             RegKey(RegKey(RegKey(st, "artists", PageKey), "urls", ArtistUrl),
                    "genres", PageKey)
      [] section = "entities" -> RegKey(st, "entities", PageKey)
      [] section = "keywords" -> RegKey(st, "keywords", PageKey)

ParsingProcess(section) == "Failed at parsing " \o section \o " data"

InsertingProcess(section) == "Failed at inserting " \o section \o " data"

\* db.insert_named_tuples(get_connection, list_of_tuples, verbose=verbose):
\* insert_named_tuples takes (get_connection, rows, log) and no `verbose`,
\* so the call raises TypeError before any row is written
InsertKwargs == {"get_connection", "rows", "log"}

InsertCallRaises == "verbose" \notin InsertKwargs

\* the for loop over the lists an extractor returned
RECURSIVE InsertLists(_, _, _, _)
InsertLists(st, t, section, n) ==
    IF n = 0 THEN st
    ELSE InsertLists(
             IF InsertCallRaises
             THEN [st EXCEPT !.events =
                       Append(@, CallerEvent(t, InsertingProcess(section)))]
             ELSE st,
             t, section, n - 1)

\* a page on which only the artists extractor raises: its first artist is
\* well formed and is registered with its URL and genre, a later one raises.
\* On the other pages a failing extractor raises at its first item.
RaisesLate(section, fails) == section = "artists" /\ fails = {"artists"}

ScrapeSection(st, t, section, fails) ==
    IF section \in fails
    THEN [(IF RaisesLate(section, fails) THEN Extract(st, t, section) ELSE st)
             EXCEPT !.events =
                 Append(@, CallerEvent(t, ParsingProcess(section)))]
    ELSE InsertLists(Extract(st, t, section), t, section, ListsOf(section))

\* for section, func in sections.items(): scrape_section(...)
NextSections_StopOnRaise(secs, raised) == IF raised THEN <<>> ELSE Tail(secs)

NextSections(secs, raised) == Tail(secs)

RECURSIVE RunSections(_, _, _, _)
RunSections(st, t, secs, fails) ==
    IF secs = <<>> THEN st
    ELSE RunSections(ScrapeSection(st, t, Head(secs), fails), t,
                     NextSections(secs, Head(secs) \in fails), fails)

\* scrape_album_review with both payloads: every section in turn; fails is
\* the set of sections whose extractor raises on this page
ScrapeSections(t, shapes) ==
    /\ pc[t] = "soup"
    /\ ~FetchFailed(t)
    /\ call[t].op = "scrape_album_review"
    /\ lock = "free"
    /\ \E fails \in shapes :
        /\ \E st \in {RunSections([dict |-> dict, counter |-> counter,
                                    sets |-> sets, events |-> events],
                                   t, Sections, fails)} :
               /\ dict' = st.dict
               /\ counter' = st.counter
               /\ sets' = st.sets
               /\ events' = st.events
        /\ returns' = returns \cup {RetPage(t, "done", fails)}
    /\ pc' = [pc EXCEPT ![t] = "idle"]
    /\ UNCHANGED <<tsc, batch, lock_bound, lock, file_exists, table, phase, epoch,
                   calls, seed, reloaded, call, loc>>

\* album.scrape_album_review after parse_url
AlbumPage(t, shapes) ==
    \/ PageNone(t)
    \/ JsonRaises(t)
    \/ ScrapeSections(t, shapes)

Page(t, shapes) ==
    \/ AlbumPage(t, shapes)
    \/ JsonReturn(t)

\* album reviews, on pages of every shape
NextPage ==
    \/ \E h \in BOOLEAN : InitializeDatabase(h)
    \/ \E t \in Workers : ListReview(t)
    \/ \E t \in Workers : SitemapInsert(t)
    \/ \E t \in Workers : CallPage(t, {"scrape_album_review"})
    \/ \E t \in Workers : Lookup(t)
    \/ \E t \in Workers : TransportFetch(t)
    \/ \E t \in Workers : AlbumPage(t, FailSets)

PageSpec == Init /\ [][NextPage]_vars

\* the three callers of parse_url: sitemap pages, album reviews, author pages
NextCaller ==
    \/ \E h \in BOOLEAN : InitializeDatabase(h)
    \/ \E t \in Workers : ListReview(t)
    \/ \E t \in Workers : SitemapInsert(t)
    \/ \E t \in Workers : CallPage(t, PageOps)
    \/ \E t \in Workers : Lookup(t)
    \/ \E t \in Workers : ParseUrl(t)
    \/ \E t \in Workers : Page(t, WellFormed)

CallerSpec == Init /\ [][NextCaller]_vars

\* -------------------------------------- Scrape_Pitchfork_Sitemap.py driver
\* retries = 10
MaxRetries == 2

\* query_review_album_urls: WHERE is_review = 1 AND is_album = 1
ReviewRows ==
    {table["urls"][i] : i \in {j \in DOMAIN table["urls"] :
                                   table["urls"][j][2] \in BatchUrls}}

\* query_failed_urls: url_id IN (SELECT se.url_id FROM scraping_events se
\* WHERE process = "Couldn't stablish connection")
FailedUrls ==
    {row \in ReviewRows :
        \E i \in DOMAIN events :
            /\ events[i].url_id = row[1]
            /\ events[i].process = "Couldn't stablish connection"}

RowIds(rows) == {row[1] : row \in rows}

\* execute_multi_thread_func(multithread_scrape_album, urls.items())
BatchFirst ==
    /\ batch.stage = "sitemap"
    /\ AllIdle
    /\ batch' = [stage |-> "first", pass |-> 1, retries |-> 0,
                 todo |-> ReviewRows, ran |-> << RowIds(ReviewRows) >>]
    /\ UNCHANGED <<tsc, sets, lock_bound, lock, dict, counter, file_exists, table,
                   events, phase, epoch, calls, seed, reloaded, pc, call, loc,
                   returns>>

\* executor.map hands every item of the list to a thread once
Remaining(todo, row) == todo \ {row}

BatchCall(t) ==
    /\ batch.stage \in {"first", "retry"}
    /\ pc[t] = "idle"
    /\ \E row \in batch.todo :
        /\ StartCall(t, [NoCall EXCEPT !.op = "scrape_album_review",
                                       !.ns = "urls", !.key = row[2],
                                       !.num_retrys = num_retrys,
                                       !.url_id = row[1]], "with_lock")
        /\ batch' = [batch EXCEPT !.todo = Remaining(@, row)]

\* while len(failed_album_urls) and (retries > 0)
LoopGoesOn_OffByOne(failed, retries) == failed # {} /\ retries >= 0

LoopGoesOn(failed, retries) == failed # {} /\ retries > 0

\* the loop test and, if it holds, the start of the next pass
LoopTest(failed, retries) ==
    IF LoopGoesOn(failed, retries)
    THEN [stage |-> "retry", pass |-> batch.pass + 1, retries |-> retries,
          todo |-> failed, ran |-> Append(batch.ran, RowIds(failed))]
    ELSE [batch EXCEPT !.stage = "done", !.retries = retries]

\* the pool of the pass is shut down: every call has returned
PassOver == batch.todo = {} /\ AllIdle

\* retries = 10; failed_album_urls = pd.read_sql(query_failed_urls, ...)
BatchEndFirst ==
    /\ batch.stage = "first"
    /\ PassOver
    /\ batch' = LoopTest(FailedUrls, MaxRetries)
    /\ UNCHANGED <<tsc, sets, lock_bound, lock, dict, counter, file_exists, table,
                   events, phase, epoch, calls, seed, reloaded, pc, call, loc,
                   returns>>

\* failed_album_urls = pd.read_sql(query_failed_urls, ...); retries -= 1
BatchEndRetry ==
    /\ batch.stage = "retry"
    /\ PassOver
    /\ batch' = LoopTest(FailedUrls, batch.retries - 1)
    /\ UNCHANGED <<tsc, sets, lock_bound, lock, dict, counter, file_exists, table,
                   events, phase, epoch, calls, seed, reloaded, pc, call, loc,
                   returns>>

NextBatch ==
    \/ \E h \in BOOLEAN : InitializeDatabase(h)
    \/ \E t \in Workers : ListReview(t)
    \/ BatchFirst
    \/ \E t \in Workers : BatchCall(t)
    \/ \E t \in Workers : Lookup(t)
    \/ \E t \in Workers : SitemapInsert(t)
    \/ \E t \in Workers : TransportFetch(t)
    \/ \E t \in Workers : AlbumPage(t, WellFormed)
    \/ BatchEndFirst
    \/ BatchEndRetry

BatchSpec == Init /\ [][NextBatch]_vars

\* ------------------------------------------------ db.insert_named_tuples
\* the length of a list of rows
MaxRows == 2

\* the lists handed to insert_named_tuples in one run
MaxBatches == 1

\* what cur.execute does with the INSERT of a row on every attempt: it
\* executes ("a"), raises sqlite3.DatabaseError, or raises an exception that
\* is not a DatabaseError (an int beyond 64 bits: OverflowError)
RowValues == {"a", "DatabaseError", "OverflowError"}

NoneRow == "None"

RECURSIVE ListsOfLen(_)
ListsOfLen(n) ==
    IF n = 0 THEN {<<>>}
    ELSE {Append(l, v) : l \in ListsOfLen(n - 1),
                         v \in RowValues \cup {NoneRow}}

RowLists == ListsOfLen(MaxRows)

\* the two entry points of the store
StoreOps == {"insert_named_tuples", "insert_named_tuple"}

StoreCalls ==
    Cardinality({r \in returns : r.fn \in StoreOps}) +
    Cardinality({t \in Workers : call[t].op \in StoreOps /\ pc[t] # "idle"})

CallInsert(t) ==
    /\ StoreCalls < MaxBatches
    /\ IdleThread(t)
    /\ \E rs \in RowLists :
           Dispatch(t, [NoCall EXCEPT !.op = "insert_named_tuples",
                                      !.ns = "labels", !.rows = rs], "rows")

\* insert_named_tuple(get_connection, row) called on its own, as
\* scrape_authors_page and insert_failed_url do
CallInsertOne(t) ==
    /\ StoreCalls < MaxBatches
    /\ IdleThread(t)
    /\ \E v \in RowValues \cup {NoneRow} :
           Dispatch(t, [NoCall EXCEPT !.op = "insert_named_tuple",
                                      !.ns = "labels", !.rows = <<v>>], "one")

CurrentRow(t) == call[t].rows[loc[t].row]

RetStore(t, status) ==
    Ret(t, call[t].op, status, FALSE, 0, call[t].key, loc[t].row, "none")

\* if row is None: return / if row is not None: ...
IsNone_Never(row) == FALSE

IsNone(row) == row = NoneRow

\* insert_named_tuple called on its own: a None row returns at once
InsertOne(t) ==
    /\ pc[t] = "one"
    /\ loc' = [loc EXCEPT ![t].row = 1]
    /\ IF IsNone(call[t].rows[1])
       THEN /\ returns' = returns \cup
                   {Ret(t, call[t].op, "ok", FALSE, 0, call[t].key, 1,
                        "none")}
            /\ pc' = [pc EXCEPT ![t] = "idle"]
       ELSE /\ returns' = returns
            /\ pc' = [pc EXCEPT ![t] = "execute"]
    /\ UNCHANGED <<tsc, sets, batch, lock_bound, lock, dict, counter, file_exists,
                   table, events, phase, epoch, calls, seed, reloaded, call>>

\* for row in rows: the list is exhausted
RowsDone(t) ==
    /\ pc[t] = "rows"
    /\ loc[t].row = Len(call[t].rows)
    /\ returns' = returns \cup {RetStore(t, "ok")}
    /\ pc' = [pc EXCEPT ![t] = "idle"]
    /\ UNCHANGED <<tsc, sets, batch, lock_bound, lock, dict, counter, file_exists,
                   table, events, phase, epoch, calls, seed, reloaded, call,
                   loc>>

\* if row is not None: insert_named_tuple(get_connection, row, log=log)
NextRow(t) ==
    /\ pc[t] = "rows"
    /\ loc[t].row < Len(call[t].rows)
    /\ loc' = [loc EXCEPT ![t].row = @ + 1]
    /\ pc' = [pc EXCEPT ![t] =
                 IF IsNone(call[t].rows[loc[t].row + 1]) THEN "rows"
                 ELSE "execute"]
    /\ UNCHANGED <<tsc, sets, batch, lock_bound, lock, dict, counter, file_exists,
                   table, events, phase, epoch, calls, seed, reloaded, call,
                   returns>>

\* ----------------------------------------------------- db.execute_command
\* cur.execute(cmd, row); con.commit(); return
Commit(t) ==
    /\ pc[t] = "execute"
    /\ CurrentRow(t) = "a"
    /\ table' = [table EXCEPT !["labels"] =
                     Append(@, <<loc[t].row, CurrentRow(t)>>)]
    /\ pc' = [pc EXCEPT ![t] = "rows"]
    /\ UNCHANGED <<tsc, sets, batch, lock_bound, lock, dict, counter, file_exists,
                   events, phase, epoch, calls, seed, reloaded, call, loc,
                   returns>>

\* except sqlite3.DatabaseError: the database is locked by another writer,
\* or the command itself is refused
SqlError(t) ==
    /\ pc[t] = "execute"
    /\ CurrentRow(t) \in {"a", "DatabaseError"}
    /\ pc' = [pc EXCEPT ![t] = "ec_sleep"]
    /\ UNCHANGED <<tsc, sets, batch, lock_bound, lock, dict, counter, file_exists,
                   table, events, phase, epoch, calls, seed, reloaded, call,
                   loc, returns>>

\* time.sleep(delay), then the while True loop goes round
AfterSleep == "execute"

Sleep(t) ==
    /\ pc[t] = "ec_sleep"
    /\ pc' = [pc EXCEPT ![t] = AfterSleep]
    /\ UNCHANGED <<tsc, sets, batch, lock_bound, lock, dict, counter, file_exists,
                   table, events, phase, epoch, calls, seed, reloaded, call,
                   loc, returns>>

\* an exception that is not a DatabaseError leaves execute_command,
\* insert_named_tuple and insert_named_tuples
OtherError(t) ==
    /\ pc[t] = "execute"
    /\ CurrentRow(t) = "OverflowError"
    /\ returns' = returns \cup {RetStore(t, "OverflowError")}
    /\ pc' = [pc EXCEPT ![t] = "idle"]
    /\ UNCHANGED <<tsc, sets, batch, lock_bound, lock, dict, counter, file_exists,
                   table, events, phase, epoch, calls, seed, reloaded, call,
                   loc>>

\* get_connection() raises DatabaseError (connect or PRAGMA, outside the
\* try of execute_command): insert_named_tuple catches it
ConnectFails(t) ==
    /\ pc[t] = "execute"
    /\ pc' = [pc EXCEPT ![t] = "log"]
    /\ UNCHANGED <<tsc, sets, batch, lock_bound, lock, dict, counter, file_exists,
                   table, events, phase, epoch, calls, seed, reloaded, call,
                   loc, returns>>

\* ------------------------------- insert_named_tuple: the except branch
\* log_event(get_connection, process=..., success=0, message=message):
\* the event row is committed
LogCommit(t) ==
    /\ pc[t] = "log"
    /\ events' = Append(events,
           [url_id |-> "", process |-> "Failed at inserting data into labels",
            success |-> 0, message |-> "traceback",
            by |-> <<t, call[t].cid>>])
    /\ pc' = [pc EXCEPT ![t] = "rows"]
    /\ UNCHANGED <<tsc, sets, batch, lock_bound, lock, dict, counter, file_exists,
                   table, phase, epoch, calls, seed, reloaded, call, loc,
                   returns>>

\* the INSERT of the event row meets a locked database
LogSqlError(t) ==
    /\ pc[t] = "log"
    /\ pc' = [pc EXCEPT ![t] = "log_sleep"]
    /\ UNCHANGED <<tsc, sets, batch, lock_bound, lock, dict, counter, file_exists,
                   table, events, phase, epoch, calls, seed, reloaded, call,
                   loc, returns>>

LogSleep(t) ==
    /\ pc[t] = "log_sleep"
    /\ pc' = [pc EXCEPT ![t] = "log"]
    /\ UNCHANGED <<tsc, sets, batch, lock_bound, lock, dict, counter, file_exists,
                   table, events, phase, epoch, calls, seed, reloaded, call,
                   loc, returns>>

ExecuteCommand(t) ==
    \/ Commit(t)
    \/ SqlError(t)
    \/ Sleep(t)
    \/ OtherError(t)
    \/ ConnectFails(t)

InsertNamedTuples(t) ==
    \/ InsertOne(t)
    \/ RowsDone(t)
    \/ NextRow(t)
    \/ ExecuteCommand(t)
    \/ LogCommit(t)
    \/ LogSqlError(t)
    \/ LogSleep(t)

NextStore ==
    \/ \E h \in BOOLEAN : InitializeDatabase(h)
    \/ \E t \in Workers : CallInsert(t)
    \/ \E t \in Workers : CallInsertOne(t)
    \/ \E t \in Workers : InsertNamedTuples(t)

\* the store takes no part in the registry lock: one binding stands for both
StoreInit == Init /\ lock_bound

StoreSpec == StoreInit /\ [][NextStore]_vars

\* every thread that can take a step of its call takes one in the end, and a
\* lock held by another writer is released in the end: a command that can
\* be committed is not refused for ever
FairStoreSpec ==
    /\ StoreSpec
    /\ \A t \in Workers : WF_vars(InsertNamedTuples(t))
    /\ \A t \in Workers : SF_vars(Commit(t))
    /\ \A t \in Workers : SF_vars(LogCommit(t))

\* ------------------------------------------------------------------ pool
\* Scrape_Pitchfork_Sitemap.py: execute_multi_thread_func(func, params_list)
\* with func one of the wrappers multithread_scrape_year / _album / _author

\* the number of work items of one list
MaxItems == 3

\* what the handler of an item does: it returns, it raises an Exception,
\* or it raises a BaseException that is not an Exception
ItemKinds == {"ok", "Exception", "SystemExit"}

RECURSIVE KindLists(_)

KindLists(n) ==
    IF n = 0 THEN {<<>>}
    ELSE {Append(l, k) : l \in KindLists(n - 1), k \in ItemKinds}

ParamsLists == KindLists(MaxItems)

\* with ThreadPoolExecutor(...) as executor: executor.map(func, params_list)
\* every item of the list is submitted, in the order of the list
PoolMap ==
    /\ phase = "run"
    /\ batch.stage = "none"
    /\ AllIdle
    /\ \E ps \in ParamsLists :
           batch' = [stage |-> "pool", pass |-> 1, retries |-> 0,
                     todo |-> {<<i, ps[i]>> : i \in DOMAIN ps},
                     ran |-> <<>>]
    /\ UNCHANGED <<tsc, sets, lock_bound, lock, dict, counter, file_exists, table,
                   events, phase, epoch, calls, seed, reloaded, pc, call, loc,
                   returns>>

\* the work queue of the executor is first in, first out
FirstItem(todo) == CHOOSE it \in todo : \A o \in todo : it[1] <= o[1]

\* an idle thread of the pool takes the next item and enters the wrapper
PoolTake(t) ==
    /\ batch.stage = "pool"
    /\ batch.todo # {}
    /\ IdleThread(t)
    /\ StartCall(t, [NoCall EXCEPT !.op = "multithread_scrape",
                                   !.key = FirstItem(batch.todo)[2],
                                   !.url_id = FirstItem(batch.todo)[1]],
                 "try")
    /\ batch' = [batch EXCEPT !.todo = Remaining(@, FirstItem(batch.todo))]

RetItem(t, status, val) ==
    Ret(t, call[t].op, status, FALSE, 0, call[t].key, call[t].url_id, val)

\* try: handler(get_connection, *item): the handler returns
HandlerReturns(t) ==
    /\ pc[t] = "try"
    /\ call[t].key = "ok"
    /\ returns' = returns \cup {RetItem(t, "ok", "done")}
    /\ pc' = [pc EXCEPT ![t] = "idle"]
    /\ UNCHANGED <<tsc, sets, batch, lock_bound, lock, dict, counter, file_exists,
                   table, events, phase, epoch, calls, seed, reloaded, call,
                   loc>>

\* except Exception as e
Caught(kind) == kind = "Exception"

\* an exception raised in one item's call is kept in that item's future:
\* the queue of the executor is as it was
QueueAfterRaise_Cancelled(todo) == {}

QueueAfterRaise(todo) == todo

\* the handler raises
HandlerRaises(t) ==
    /\ pc[t] = "try"
    /\ call[t].key # "ok"
    /\ pc' = [pc EXCEPT ![t] =
                 IF Caught(call[t].key) THEN "except" ELSE "future"]
    /\ batch' = [batch EXCEPT !.todo = QueueAfterRaise(@)]
    /\ UNCHANGED <<tsc, sets, lock_bound, lock, dict, counter, file_exists, table,
                   events, phase, epoch, calls, seed, reloaded, call, loc,
                   returns>>

\* print(f"Error scraping {item}: {e}"): nothing else, the wrapper returns
WrapperPrint(t) ==
    /\ pc[t] = "except"
    /\ returns' = returns \cup {RetItem(t, "ok", "printed")}
    /\ pc' = [pc EXCEPT ![t] = "idle"]
    /\ UNCHANGED <<tsc, sets, batch, lock_bound, lock, dict, counter, file_exists,
                   table, events, phase, epoch, calls, seed, reloaded, call,
                   loc>>

\* the wrapper lets the exception through: it is set on the future of the
\* item, which nobody reads (the iterator of executor.map is dropped)
FutureHolds(t) ==
    /\ pc[t] = "future"
    /\ returns' = returns \cup {RetItem(t, call[t].key, "none")}
    /\ pc' = [pc EXCEPT ![t] = "idle"]
    /\ UNCHANGED <<tsc, sets, batch, lock_bound, lock, dict, counter, file_exists,
                   table, events, phase, epoch, calls, seed, reloaded, call,
                   loc>>

\* leaving the with block: executor.shutdown(wait=True)
PoolExit ==
    /\ batch.stage = "pool"
    /\ PassOver
    /\ batch' = [batch EXCEPT !.stage = "pool_done"]
    /\ UNCHANGED <<tsc, sets, lock_bound, lock, dict, counter, file_exists, table,
                   events, phase, epoch, calls, seed, reloaded, pc, call, loc,
                   returns>>

Wrapper(t) ==
    \/ HandlerReturns(t)
    \/ HandlerRaises(t)
    \/ WrapperPrint(t)
    \/ FutureHolds(t)

NextPool ==
    \/ \E h \in BOOLEAN : InitializeDatabase(h)
    \/ PoolMap
    \/ \E t \in Workers : PoolTake(t)
    \/ \E t \in Workers : Wrapper(t)
    \/ PoolExit

PoolSpec == StoreInit /\ [][NextPool]_vars

\* ------------------------------------------- album.py: the extractors
\* each extractor is applied as one step to a payload and to the registry
\* as it is; what it returns is kept in `returns` (key: the payload, val:
\* the lists returned)

\* a field of the payload: dict_lookup gives None when it is absent
Absent == [present |-> FALSE, v |-> <<>>]

Field(v) == [present |-> TRUE, v |-> v]

\* coreDataLayer.content.contentId
ReviewId == "r1"

\* the lists an extractor returns: the main records (reviews), the new
\* registry records, the new URL records and the junction rows
NoOut == [main |-> <<>>, new |-> <<>>, urls |-> <<>>, rows |-> <<>>]

St == [dict |-> dict, counter |-> counter, sets |-> sets]

Returned(st, out) == [st |-> st, out |-> out, status |-> "ok"]

Raised(st, exc) == [st |-> st, out |-> NoOut, status |-> exc]

\* the author ids of coreDataLayer.content.authorIds, split at ','
AuthorIds == {"p", "q"}

AuthorIdFields ==
    {Absent} \cup {Field(<<x>>) : x \in AuthorIds}
             \cup {Field(<<x, y>>) : x \in AuthorIds, y \in AuthorIds}

\* review.contributors.author.items[i]["url"]
ItemUrl(i) == IF i = 1 THEN AuthorUrl ELSE ArtistUrl

\* for i, author_id in enumerate(authors_info1); n: the number of items
\* of review.contributors.author.items
RECURSIVE AuthorsLoop(_, _, _, _, _)

AuthorsLoop(st, out, ids, i, n) ==
    IF i > Len(ids) THEN Returned(st, out)
    ELSE IF i > n THEN Raised(st, "IndexError")
    ELSE IF ~lock_bound THEN Raised(st, "AttributeError")
    ELSE LET url == ItemUrl(i)
             is_new_url == url \notin DOMAIN st.dict["urls"]
             st1 == RegKey(st, "urls", url)
             url_id == st1.dict["urls"][url]
             is_new == ids[i] \notin st1.sets["authors"]
             st2 == IF is_new THEN AddKey(st1, "authors", ids[i]) ELSE st1
             out2 == [out EXCEPT
                         !.urls = IF is_new_url THEN Append(@, <<url_id, url>>)
                                  ELSE @,
                         !.rows = Append(@, <<ReviewId, ids[i]>>),
                         !.new = IF is_new THEN Append(@, <<ids[i], url_id>>)
                                 ELSE @]
         IN  AuthorsLoop(st2, out2, ids, i + 1, n)

\* if authorids is None
AuthorIdsMissing_Never(f) == FALSE

AuthorIdsMissing(f) == ~f.present

scrape_authors_data(st, f, n) ==
    IF AuthorIdsMissing(f)
    THEN Returned(st, [NoOut EXCEPT !.rows = << <<ReviewId, "0">> >>])
    ELSE AuthorsLoop(st, NoOut, f.v, 1, n)

\* an extractor that writes an event of its own to the store
ApplyExtractor_Logging(t, fn, payload, res) ==
    /\ Idle(t)
    /\ IdleThread(t)
    /\ calls' = calls + 1
    /\ dict' = res.st.dict
    /\ counter' = res.st.counter
    /\ sets' = res.st.sets
    /\ events' = IF res.status = "ok" THEN events
                 ELSE Append(events, [url_id |-> 0, process |-> fn,
                                      success |-> 0, message |-> res.status,
                                      by |-> <<t, calls + 1>>])
    /\ returns' = returns \cup
           {[Ret(t, fn, res.status, FALSE, 0, payload, 0, res.out)
                EXCEPT !.cid = calls + 1]}
    /\ UNCHANGED <<tsc, batch, lock_bound, lock, file_exists, table, phase,
                   epoch, seed, reloaded, pc, call, loc>>

\* one call of an extractor: its effect on the registry and what it returns
ApplyExtractor(t, fn, payload, res) ==
    /\ Idle(t)
    /\ IdleThread(t)
    /\ calls' = calls + 1
    /\ dict' = res.st.dict
    /\ counter' = res.st.counter
    /\ sets' = res.st.sets
    /\ returns' = returns \cup
           {[Ret(t, fn, res.status, FALSE, 0, payload, 0, res.out)
                EXCEPT !.cid = calls + 1]}
    /\ UNCHANGED <<tsc, batch, lock_bound, lock, file_exists, table, events, phase,
                   epoch, seed, reloaded, pc, call, loc>>

CallAuthorsData(t) ==
    /\ Idle(t)
    /\ \E f \in AuthorIdFields : \E n \in 0..2 :
        \E res \in {scrape_authors_data(St, f, n)} :
            ApplyExtractor(t, "scrape_authors_data",
                           [field |-> f, n |-> n, u |-> NoneKey], res)

\* review.multiReviewHeaderProps.infoSliceFields.label, split at ' / ';
\* the empty sequence stands for the empty string
LabelFields == {Absent, Field(<<>>), Field(<<"a">>), Field(<<"a", "b">>)}

\* labels.split(' / ') if labels else [None]
LabelList(f) == IF f.present /\ f.v # <<>> THEN f.v ELSE <<NoneKey>>

\* the fields of the namedtuple urls, and the arguments of
\* URL(url_id, review_url, None, None, 1, 1, 0, 0)
UrlFields == <<"url_id", "url", "year", "month", "week", "is_review",
               "is_album", "is_author", "is_artist">>

ReviewUrlArgs == <<"url_id", "review_url", "None", "None", "1", "1", "0", "0">>

\* for label in labels: with g.lock: ...
RECURSIVE LabelsLoop(_, _, _, _)

LabelsLoop(st, out, labels, i) ==
    IF i > Len(labels) THEN Returned(st, out)
    ELSE IF ~lock_bound THEN Raised(st, "AttributeError")
    ELSE LET label == labels[i]
             is_new == label \notin DOMAIN st.dict["labels"]
             st1 == RegKey(st, "labels", label)
             label_id == st1.dict["labels"][label]
             out1 == [out EXCEPT
                         !.new = IF is_new THEN Append(@, <<label_id, label>>)
                                 ELSE @,
                         !.rows = Append(@, <<ReviewId, label_id>>)]
         IN  LabelsLoop(st1, out1, labels, i + 1)

\* scrape_review_data on a payload whose other fields are well formed
scrape_review_data(st, f, review_url) ==
    IF ~lock_bound THEN Raised(st, "AttributeError")
    ELSE LET is_new_url == review_url \notin DOMAIN st.dict["urls"]
             st1 == RegKey(st, "urls", review_url)
             url_id == st1.dict["urls"][review_url]
         IN  IF is_new_url /\ Len(ReviewUrlArgs) # Len(UrlFields)
             THEN Raised(st1, "TypeError")
             ELSE LabelsLoop(st1,
                             [NoOut EXCEPT
                                 !.main = << <<ReviewId, url_id>> >>,
                                 !.urls = IF is_new_url
                                          THEN << <<url_id, review_url>> >>
                                          ELSE <<>>],
                             LabelList(f), 1)

CallReviewData(t) ==
    /\ Idle(t)
    /\ \E f \in LabelFields : \E u \in Keys :
        \E res \in {scrape_review_data(St, f, u)} :
            ApplyExtractor(t, "scrape_review_data",
                           [field |-> f, n |-> 0, u |-> u], res)

\* the sitemap has listed a review: its URL is in the registry
ListUrl(t) ==
    /\ Idle(t)
    /\ lock_bound
    /\ \E u \in Keys :
           \E res \in {Returned(RegKey(St, "urls", u), NoOut)} :
               ApplyExtractor(t, "get_url_id",
                              [field |-> Absent, n |-> 0, u |-> u], res)

\* content4d.entities and content4d.keywords.list: items <<name, score>>
ScoredFields ==
    {Absent, Field(<<>>), Field(<< <<"a", "0.9">> >>),
     Field(<< <<"a", "0.9">>, <<"b", "0.5">> >>)}

\* for item in entities: ... with g.lock: ...
RECURSIVE ScoredLoop(_, _, _, _, _)

ScoredLoop(st, out, ns, items, i) ==
    IF i > Len(items) THEN Returned(st, out)
    ELSE IF ~lock_bound THEN Raised(st, "AttributeError")
    ELSE LET name == items[i][1]
             is_new == name \notin DOMAIN st.dict[ns]
             st1 == RegKey(st, ns, name)
             id == st1.dict[ns][name]
             out1 == [out EXCEPT
                         !.new = IF is_new THEN Append(@, <<id, name>>) ELSE @,
                         !.rows = Append(@, <<ReviewId, id, items[i][2]>>)]
         IN  ScoredLoop(st1, out1, ns, items, i + 1)

\* if entities is None / if keywords is None
SectionMissing_Never(f) == FALSE

SectionMissing(f) == ~f.present

\* scrape_entities_data (ns = "entities"), scrape_keywords_data ("keywords")
scrape_scored_data(st, ns, f) ==
    IF SectionMissing(f)
    THEN Returned(st, [NoOut EXCEPT !.rows = << <<ReviewId, 0, NoneKey>> >>])
    ELSE ScoredLoop(st, NoOut, ns, f.v, 1)

ScoredFn(ns) == "scrape_" \o ns \o "_data"

CallScoredData(t) ==
    /\ Idle(t)
    /\ \E ns \in {"entities", "keywords"} : \E f \in ScoredFields :
        \E res \in {scrape_scored_data(St, ns, f)} :
            ApplyExtractor(t, ScoredFn(ns), [field |-> f, n |-> 0, u |-> ns],
                           res)

\* review.multiReviewHeaderProps.itemsReviewed: the album ids of the items;
\* review.headerProps.artists: the names of the artists
ItemFields == {Absent, Field(<<"a">>), Field(<<"a", "b">>)}

\* for item in items_reviewed
RECURSIVE AlbumsLoop(_, _, _)

AlbumsLoop(st, out, ids) ==
    IF ids = <<>> THEN Returned(st, out)
    ELSE IF ~lock_bound THEN Raised(st, "AttributeError")
    ELSE LET album_id == Head(ids)
             is_new == album_id \notin st.sets["albums"]
         IN  AlbumsLoop(IF is_new THEN AddKey(st, "albums", album_id) ELSE st,
                        [out EXCEPT
                            !.rows = Append(@, <<ReviewId, album_id>>),
                            !.new = IF is_new THEN Append(@, <<album_id>>)
                                    ELSE @],
                        Tail(ids))

scrape_albums_data(st, f) ==
    IF ~f.present \/ f.v = <<>> THEN Returned(st, NoOut)
    ELSE AlbumsLoop(st, NoOut, f.v)

\* for a in artists; every artist of the payloads has the URI ArtistUrl and
\* one genre, PageKey
RECURSIVE ArtistsLoop(_, _, _)

ArtistsLoop(st, out, names) ==
    IF names = <<>> THEN Returned(st, out)
    ELSE IF ~lock_bound THEN Raised(st, "AttributeError")
    ELSE LET artist_name == Head(names)
             st1 == RegKey(st, "artists", artist_name)
             artist_id == st1.dict["artists"][artist_name]
             is_new_url == ArtistUrl \notin DOMAIN st1.dict["urls"]
             st2 == RegKey(st1, "urls", ArtistUrl)
             url_id == st2.dict["urls"][ArtistUrl]
             is_new_genre == PageKey \notin DOMAIN st2.dict["genres"]
             st3 == RegKey(st2, "genres", PageKey)
             genre_id == st3.dict["genres"][PageKey]
         IN  ArtistsLoop(st3,
                 [out EXCEPT
                     !.urls = IF is_new_url THEN Append(@, <<url_id, ArtistUrl>>)
                              ELSE @,
                     !.main = Append(@, <<artist_id, artist_name>>),
                     !.new = IF is_new_genre
                             THEN Append(@, <<genre_id, PageKey>>) ELSE @,
                     !.rows = Append(@, <<ReviewId, artist_name>>)],
                 Tail(names))

scrape_artists_data(st, f) ==
    IF ~f.present THEN Returned(st, NoOut)
    ELSE ArtistsLoop(st, NoOut, f.v)

CallItemsData(t) ==
    /\ Idle(t)
    /\ \E f \in ItemFields :
        \/ \E res \in {scrape_albums_data(St, f)} :
               ApplyExtractor(t, "scrape_albums_data",
                              [field |-> f, n |-> 0, u |-> NoneKey], res)
        \/ \E res \in {scrape_artists_data(St, f)} :
               ApplyExtractor(t, "scrape_artists_data",
                              [field |-> f, n |-> 0, u |-> NoneKey], res)

NextExtract ==
    \/ \E h \in BOOLEAN : InitializeDatabase(h)
    \/ Restart
    \/ \E t \in Workers : CallAuthorsData(t)
    \/ \E t \in Workers : ListUrl(t)
    \/ \E t \in Workers : CallReviewData(t)
    \/ \E t \in Workers : CallScoredData(t)
    \/ \E t \in Workers : CallItemsData(t)

ExtractSpec == Init /\ [][NextExtract]_vars

\* --------------------------------------- album.__create_album_object
\* pitchfork_score = None if (score is None) else int(float(score * 10))
\* with score a float: the rating k/10 as the JSON parser reads it, the
\* nearest binary64 number. A float x > 0 is [hi, lo, exp]: its significand
\* of Mantissa bits is hi * 2^LowBits + lo, the leading bit of weight 2^exp

\* the bits of the significand of a binary64 float
Mantissa == 53

\* the significand is held in two parts: the low 26 bits and the rest
LowBits == 26

Low == 2^LowBits

\* ratings are on the scale 0..10 with one decimal: 0..100 tenths
MaxTenths == 100

\* round to nearest, ties to even: the default rounding of binary64
\* guard: the first bit dropped; sticky: a nonzero rest after it
RoundsUp_Never(guard, sticky, last) == FALSE

RoundsUp(guard, sticky, last) == guard = 1 /\ (sticky \/ last = 1)

\* the significand plus one unit in the last place
NextUp(x) ==
    IF x.lo + 1 < Low THEN [x EXCEPT !.lo = @ + 1]
    ELSE IF x.hi + 1 < 2^(Mantissa - LowBits) THEN [x EXCEPT !.lo = 0, !.hi = @ + 1]
    ELSE [hi |-> 2^(Mantissa - LowBits - 1), lo |-> 0, exp |-> x.exp + 1]

Round(x, guard, sticky) ==
    IF RoundsUp(guard, sticky, x.lo % 2) THEN NextUp(x) ELSE x

\* the exponent of k/10: the e with 2^e <= k/10 < 2^(e+1), k > 0
RECURSIVE ExpOf(_, _)

ExpOf(k, e) ==
    IF e >= 0 /\ 10 * 2^e > k THEN ExpOf(k, e - 1)
    ELSE IF e < 0 /\ k * 2^(-e) < 10 THEN ExpOf(k, e - 1)
    ELSE e

\* the float the parser gives for the decimal k/10, k > 0: the quotient
\* k * 2^(Mantissa - 1 - e) / 10 by long division, then rounded
ToFloat(k) ==
    LET e == ExpOf(k, 4)
        a == IF e >= 0 THEN k * 2^(LowBits - e) ELSE (k * 2^(-e)) * Low
        r1 == a % 10
        r2 == (r1 * Low) % 10
    IN  Round([hi |-> a \div 10, lo |-> (r1 * Low) \div 10, exp |-> e],
              (2 * r2) \div 10, (2 * r2) % 10 # 0)

\* x * 10: the exact product, brought back to Mantissa bits and rounded
Times10(x) ==
    LET l == x.lo * 10
        h == x.hi * 10 + l \div Low
        s == IF h >= 2^(Mantissa - LowBits + 3) THEN 4 ELSE 3
        dropped == (l % Low) % 2^s
    IN  Round([hi |-> h \div 2^s,
               lo |-> (h % 2^s) * 2^(LowBits - s) + (l % Low) \div 2^s,
               exp |-> x.exp + s],
              dropped \div 2^(s - 1), dropped % 2^(s - 1) # 0)

\* int(x): the integer part of a float below 2^LowBits
Trunc(x) == IF x.exp < 0 THEN 0 ELSE x.hi \div 2^(LowBits - x.exp)

\* a rating of the payload: absent, or k tenths
NoScore == [present |-> FALSE, v |-> 0]

Ratings == {NoScore} \cup {[present |-> TRUE, v |-> k] : k \in 0..MaxTenths}

\* int(float(score * 10)); 0.0 * 10 is 0.0
ScoreTable ==
    [k \in 0..MaxTenths |-> IF k = 0 THEN 0 ELSE Trunc(Times10(ToFloat(k)))]

\* None if (score is None) else int(float(score * 10))
pitchfork_score(score) ==
    IF ~score.present THEN NoScore
    ELSE [present |-> TRUE, v |-> ScoreTable[score.v]]

CallAlbumObject(t) ==
    /\ Idle(t)
    /\ \E score \in Ratings :
           ApplyExtractor(t, "__create_album_object", score,
                          Returned(St, pitchfork_score(score)))

NextScore ==
    \/ \E h \in BOOLEAN : InitializeDatabase(h)
    \/ \E t \in Workers : CallAlbumObject(t)

ScoreSpec == StoreInit /\ [][NextScore]_vars

\* ----------------------------------------- author.py: the author page
\* strings are sequences of characters; ToLower and ToUpper give the case
\* of the ASCII letters
UpperChars == "ABCDEFGHIJKLMNOPQRSTUVWXYZ"

LowerChars == "abcdefghijklmnopqrstuvwxyz"

Char(s, i) == SubSeq(s, i, i)

IndexIn(chars, c) ==
    IF \E i \in 1..Len(chars) : Char(chars, i) = c
    THEN CHOOSE i \in 1..Len(chars) : Char(chars, i) = c
    ELSE 0

IsLetter(c) == IndexIn(UpperChars, c) > 0 \/ IndexIn(LowerChars, c) > 0

ToLower(c) ==
    IF IndexIn(UpperChars, c) > 0 THEN Char(LowerChars, IndexIn(UpperChars, c))
    ELSE c

ToUpper(c) ==
    IF IndexIn(LowerChars, c) > 0 THEN Char(UpperChars, IndexIn(LowerChars, c))
    ELSE c

\* str.lower()
RECURSIVE Lower(_)

Lower(s) == IF s = "" THEN "" ELSE ToLower(Char(s, 1)) \o Lower(Tail(s))

\* str.title(): a letter after a letter in lower case, any other in upper
RECURSIVE TitleFrom(_, _)

TitleFrom(s, inword) ==
    IF s = "" THEN ""
    ELSE LET c == Char(s, 1)
         IN  (IF inword THEN ToLower(c) ELSE ToUpper(c))
                 \o TitleFrom(Tail(s), IsLetter(c))

Title(s) == TitleFrom(s, FALSE)

\* re.sub(r' +', ' ', t)
RECURSIVE OneSpace(_)

OneSpace(s) ==
    IF Len(s) < 2 THEN s
    ELSE IF Char(s, 1) = " " /\ Char(s, 2) = " " THEN OneSpace(Tail(s))
    ELSE Char(s, 1) \o OneSpace(Tail(s))

\* str.strip(), for the blank
RECURSIVE Strip(_)

Strip(s) ==
    IF s = "" THEN ""
    ELSE IF Char(s, 1) = " " THEN Strip(Tail(s))
    ELSE IF Char(s, Len(s)) = " " THEN Strip(SubSeq(s, 1, Len(s) - 1))
    ELSE s

StartsWith(s, sub) == Len(sub) <= Len(s) /\ SubSeq(s, 1, Len(sub)) = sub

\* sub in s
Contains(s, sub) ==
    \E i \in 0..(Len(s) - Len(sub)) : SubSeq(s, i + 1, i + Len(sub)) = sub

\* str.replace(old, '')
RECURSIVE Remove(_, _)

Remove(s, old) ==
    IF s = "" THEN ""
    ELSE IF StartsWith(s, old) THEN Remove(SubSeq(s, Len(old) + 1, Len(s)), old)
    ELSE Char(s, 1) \o Remove(Tail(s), old)

\* reformat_author_type on a string; "" stands for None
reformat_author_type(t) ==
    Strip(Remove(Remove(Title(Strip(OneSpace(t))), ", Pitchfork"), "Pitchfork"))

\* a string field of the payload: absent (dict_lookup gives None) or a string
NoString == [present |-> FALSE, v |-> ""]

Str(v) == [present |-> TRUE, v |-> v]

\* legend_when_empy
Legend == "bio and get latest news stories and articles."

\* scrape_authors_bio: [raises, bio]; b1, b2: the fields at path_1, path_2
scrape_authors_bio(b1, b2) ==
    LET raw_bio == IF b1.present THEN b1 ELSE b2
    IN  IF raw_bio.present
        THEN [raises |-> FALSE,
              bio |-> IF raw_bio.v = "" THEN NoString
                      ELSE IF Contains(Lower(raw_bio.v), Legend) THEN NoString
                      ELSE raw_bio]
        ELSE [raises |-> TRUE, bio |-> NoString]

\* if len(at) > 35
MaxTypeLen == 35

TooLong_Never(at) == FALSE

TooLong(at) == Len(at) > MaxTypeLen

\* the typographic quotes of the third value are written as ASCII quotes
anomalous_types ==
    {"Ars Technica", "Dice For Any Occasion",
     "\"Made For Love\" By Alissa Nutting", "Review: Motorola Droid Razr Maxx",
     "Megan Buerger | Staff |"}

\* get_author_name: "" stands for None
get_author_name(name) ==
    IF name.present THEN Lower(reformat_author_type(name.v)) ELSE ""

\* get_author_type: the cleaned type, or NoneKey
get_author_type(f, name) ==
    LET at == IF f.present THEN reformat_author_type(f.v) ELSE ""
        author_name == get_author_name(name)
    IN  IF at = "" THEN NoneKey
        ELSE IF TooLong(at) THEN NoneKey
        ELSE IF at \in anomalous_types THEN NoneKey
        ELSE IF author_name # "" /\ (Contains(Lower(at), author_name)
                                       \/ Contains(author_name, Lower(at)))
             THEN NoneKey
        ELSE at

\* scrape_authors_type, taken as one step: for author_type in ats
RECURSIVE TypesLoop(_, _, _)

TypesLoop(st, ats, out) ==
    IF ats = <<>> THEN [st |-> st, out |-> out]
    ELSE LET at == Head(ats)
             is_new == at \notin DOMAIN st.dict["author_types"]
             st1 == RegKey(st, "author_types", at)
         IN  TypesLoop(st1, Tail(ats),
                       Append(out, [is_new |-> is_new,
                                    id |-> st1.dict["author_types"][at],
                                    key |-> at]))

\* the raw titles and names of the pages
RawTypes ==
    {"senior  editor ", "Pitchfork", "ars technica",
     "contributing editor and news director",
     "contributing editor and news writer", "jo doe, contributor", "DOE"}

RawName == "Jo  Doe"

\* the author whose page is scraped
PageAuthors == {"p"}

\* the payloads of the author pages: every raw title at the first path, a
\* page without the author's name, and every shape of the two bio fields
TypePayloads ==
    {[bio1 |-> Str("Jo writes."), bio2 |-> NoString, name |-> Str(RawName),
      t1 |-> Str(r), t2 |-> Str("Contributor, Pitchfork")] : r \in RawTypes}
    \cup {[bio1 |-> Str("Jo writes."), bio2 |-> NoString, name |-> NoString,
           t1 |-> Str("DOE"), t2 |-> NoString]}

BioPayloads ==
    {[bio1 |-> b[1], bio2 |-> b[2], name |-> Str(RawName),
      t1 |-> Str("senior  editor "), t2 |-> NoString] :
        b \in {<<NoString, NoString>>, <<Str(""), NoString>>,
               <<NoString, Str("Jo writes.")>>,
               <<Str("Read Jo's Bio and get latest news stories and articles."),
                 NoString>>}}

AuthorPayloads == TypePayloads \cup BioPayloads

\* what scrape_authors_page does with the payload of one page
AuthorPage(st, tb, ev, author_id, pl, by) ==
    LET b == scrape_authors_bio(pl.bio1, pl.bio2)
        ats == <<get_author_type(pl.t1, pl.name),
                 get_author_type(pl.t2, pl.name)>>
        ty == TypesLoop(st, ats, <<>>)
    IN  IF b.raises
        THEN [st |-> st, table |-> tb,
              events |-> Append(ev,
                  [url_id |-> 0,
                   process |-> "Failed at parsing bio from author id "
                                   \o author_id,
                   success |-> 0, message |-> "traceback", by |-> by]),
              val |-> [stage |-> "bio_failed", bio |-> NoString,
                       ids |-> <<>>, news |-> <<>>]]
        ELSE [st |-> ty.st,
              table |-> [tb EXCEPT
                  !["author_bios"] = Append(@, <<author_id, b.bio>>),
                  !["author_type_evolution"] =
                      Append(@, <<author_id, ty.out[1].id, ty.out[2].id>>),
                  !["author_types"] = @ \o NewTypeRows(ty.out)],
              events |-> ev,
              val |-> [stage |-> "done", bio |-> b.bio,
                       ids |-> <<ty.out[1].id, ty.out[2].id>>,
                       news |-> <<ty.out[1].is_new, ty.out[2].is_new>>]]

\* scrape_authors_page from the point where json_preload is not None
ScrapeAuthorsPage(t) ==
    /\ Idle(t)
    /\ IdleThread(t)
    /\ \E author_id \in PageAuthors : \E pl \in AuthorPayloads :
        \E res \in {AuthorPage(St, table, events, author_id, pl,
                               <<t, calls + 1>>)} :
            /\ calls' = calls + 1
            /\ dict' = res.st.dict
            /\ counter' = res.st.counter
            /\ table' = res.table
            /\ events' = res.events
            /\ returns' = returns \cup
                   {[Ret(t, "scrape_authors_page", "ok", FALSE, 0,
                         [author |-> author_id, pl |-> pl], 0, res.val)
                        EXCEPT !.cid = calls + 1]}
    /\ UNCHANGED <<tsc, sets, batch, lock_bound, lock, file_exists, phase, epoch,
                   seed, reloaded, pc, call, loc>>

NextAuthorPage ==
    \/ \E h \in BOOLEAN : InitializeDatabase(h)
    \/ \E t \in Workers : ScrapeAuthorsPage(t)

AuthorPageSpec == StoreInit /\ [][NextAuthorPage]_vars

\* ---------------------------------------------------------------- dict_lookup
\* a value of a decoded JSON document: None, a number, a str, a list of
\* strs, or a dict given as a set of <<key, value>> pairs
JsonNull == [kind |-> "null", n |-> 0, s |-> "", elems |-> <<>>, map |-> {}]

JsonNum(n) == [JsonNull EXCEPT !.kind = "number", !.n = n]

JsonStr(s) == [JsonNull EXCEPT !.kind = "str", !.s = s]

JsonList(elems) == [JsonNull EXCEPT !.kind = "list", !.elems = elems]

JsonDict(map) == [JsonNull EXCEPT !.kind = "dict", !.map = map]

\* not v
Falsy(v) ==
    \/ v.kind = "null"
    \/ v.kind = "number" /\ v.n = 0
    \/ v.kind = "str" /\ v.s = ""
    \/ v.kind = "list" /\ v.elems = <<>>
    \/ v.kind = "dict" /\ v.map = {}

\* the kinds of value that `key in result` accepts
Containers == {"dict", "str", "list"}

\* key in v, for v of a kind in Containers
In(key, v) ==
    CASE v.kind = "dict" -> \E p \in v.map : p[1] = key
      [] v.kind = "str" -> Contains(v.s, key)
      [] v.kind = "list" -> \E i \in DOMAIN v.elems : v.elems[i] = key
      [] OTHER -> FALSE

\* v[key], for a dict v that has the key
GetItem(v, key) == (CHOOSE p \in v.map : p[1] = key)[2]

LookupResult(exc, v) == [exc |-> exc, v |-> v]

\* for key in keys_tree
RECURSIVE Walk(_, _)

Walk(result, keys) ==
    IF keys = <<>> THEN LookupResult("none", result)
    ELSE IF result.kind \notin Containers
         THEN LookupResult("TypeError", JsonNull)
    ELSE IF In(Head(keys), result)
         THEN IF result.kind = "dict"
              THEN Walk(GetItem(result, Head(keys)), Tail(keys))
              ELSE LookupResult("TypeError", JsonNull)
    ELSE LookupResult("none", JsonNull)

dict_lookup(data_dict, keys_tree) ==
    IF data_dict.kind = "null" \/ Len(keys_tree) = 0 \/ Falsy(data_dict)
    THEN LookupResult("none", JsonNull)
    ELSE Walk(data_dict, keys_tree)

\* the values at the end of a document, and the documents of up to two levels
Leaves ==
    {JsonNull, JsonNum(5), JsonStr("ab"), JsonStr("x"), JsonList(<<"b">>),
     JsonList(<<>>), JsonDict({})}

Inner == Leaves \cup {JsonDict({<<"b", v>>}) : v \in Leaves}

Documents ==
    Leaves \cup {JsonDict({<<"a", v>>}) : v \in Inner}
           \cup {JsonDict({<<"b", v>>}) : v \in Leaves}

KeyPaths == {<<>>, <<"a">>, <<"a", "b">>}

CallDictLookup(t) ==
    /\ Idle(t)
    /\ IdleThread(t)
    /\ \E data_dict \in Documents : \E keys_tree \in KeyPaths :
        \E res \in {dict_lookup(data_dict, keys_tree)} :
            /\ calls' = calls + 1
            /\ returns' = returns \cup
                   {[Ret(t, "dict_lookup",
                         IF res.exc = "none" THEN "ok" ELSE res.exc, FALSE, 0,
                         [data |-> data_dict, keys |-> keys_tree], 0, res.v)
                        EXCEPT !.cid = calls + 1]}
    /\ UNCHANGED <<tsc, dict, counter, sets, batch, lock_bound, lock, file_exists,
                   table, events, phase, epoch, seed, reloaded, pc, call, loc>>

NextLookup ==
    \/ \E h \in BOOLEAN : InitializeDatabase(h)
    \/ \E t \in Workers : CallDictLookup(t)

LookupSpec == StoreInit /\ [][NextLookup]_vars

\* ------------------------------------------------ albums_set / authors_set
\* the entity ids of the payloads, and the items that carry them: from a
\* well-formed item the entity record can be built, a malformed one makes
\* __create_album_object (albums) or authors_info2[i]['name'] (authors) raise
EntityIds == {"a"}

ItemShapes == {"well_formed", "malformed"}

SetFn(ns) == "scrape_" \o ns \o "_data"

\* scrape_albums_data / scrape_authors_data at the `with g.lock:` of one item
CallSetExtractor(t) ==
    \E ns \in SetNS : \E k \in EntityIds : \E shape \in ItemShapes :
        Dispatch(t, [NoCall EXCEPT !.op = SetFn(ns), !.ns = ns, !.key = k,
                                   !.ats = <<shape>>], "set_lock")

\* evaluating g.lock when scraper.globals has no such attribute
SetLockUnbound(t) ==
    /\ pc[t] = "set_lock"
    /\ ~lock_bound
    /\ returns' = returns \cup
           {Ret(t, call[t].op, "AttributeError", FALSE, 0, call[t].key, 1,
                "none")}
    /\ pc' = [pc EXCEPT ![t] = "idle"]
    /\ UNCHANGED <<tsc, sets, batch, lock_bound, lock, dict, counter, file_exists,
                   table, events, phase, epoch, calls, seed, reloaded, call,
                   loc>>

SetAcquire(t) ==
    /\ pc[t] = "set_lock"
    /\ lock_bound
    /\ lock = "free"
    /\ lock' = t
    /\ pc' = [pc EXCEPT ![t] = "set_check"]
    /\ UNCHANGED <<tsc, sets, batch, lock_bound, dict, counter, file_exists, table,
                   events, phase, epoch, calls, seed, reloaded, call, loc,
                   returns>>

\* if album_id not in g.albums_set
SetCheck(t) ==
    /\ pc[t] = "set_check"
    /\ pc' = [pc EXCEPT ![t] = IF call[t].key \notin sets[call[t].ns]
                               THEN "set_add" ELSE "set_release"]
    /\ UNCHANGED <<tsc, sets, batch, lock_bound, lock, dict, counter, file_exists,
                   table, events, phase, epoch, calls, seed, reloaded, call,
                   loc, returns>>

\* g.albums_set.add(album_id)
SetAdd(t) ==
    /\ pc[t] = "set_add"
    /\ sets' = [sets EXCEPT ![call[t].ns] = @ \cup {call[t].key}]
    /\ pc' = [pc EXCEPT ![t] = "set_create"]
    /\ UNCHANGED <<tsc, batch, lock_bound, lock, dict, counter, file_exists, table,
                   events, phase, epoch, calls, seed, reloaded, call, loc,
                   returns>>

\* new_albums.append(__create_album_object(item)): the record is built, or
\* the exception leaves the with block and the extractor
SetCreate(t) ==
    /\ pc[t] = "set_create"
    /\ IF call[t].ats[1] = "well_formed"
       THEN /\ loc' = [loc EXCEPT ![t].is_new = TRUE]
            /\ pc' = [pc EXCEPT ![t] = "set_release"]
            /\ UNCHANGED <<tsc, lock, returns>>
       ELSE /\ lock' = "free"
            /\ returns' = returns \cup
                   {Ret(t, call[t].op,
                        IF call[t].ns = "albums" THEN "ValueError"
                        ELSE "KeyError", FALSE, 0, call[t].key, 1, "none")}
            /\ pc' = [pc EXCEPT ![t] = "idle"]
            /\ loc' = loc
    /\ UNCHANGED <<tsc, sets, batch, lock_bound, dict, counter, file_exists, table,
                   events, phase, epoch, calls, seed, reloaded, call>>

\* leaving the with block; return new_albums, review_albums
SetRelease(t) ==
    /\ pc[t] = "set_release"
    /\ lock' = "free"
    /\ returns' = returns \cup
           {Ret(t, call[t].op, "ok", loc[t].is_new, 0, call[t].key, 1,
                IF loc[t].is_new THEN "record" ELSE "none")}
    /\ pc' = [pc EXCEPT ![t] = "idle"]
    /\ UNCHANGED <<tsc, sets, batch, lock_bound, dict, counter, file_exists, table,
                   events, phase, epoch, calls, seed, reloaded, call, loc>>

SetExtractor(t) ==
    \/ SetLockUnbound(t)
    \/ SetAcquire(t)
    \/ SetCheck(t)
    \/ SetAdd(t)
    \/ SetCreate(t)
    \/ SetRelease(t)

NextSet ==
    \/ \E h \in BOOLEAN : InitializeDatabase(h)
    \/ \E t \in Workers : CallSetExtractor(t)
    \/ \E t \in Workers : SetExtractor(t)

SetSpec == Init /\ [][NextSet]_vars

\* ---------------------------------------------------------- types.TSCDict
\* the operations that take self.__lock
TSCOps == {"__getitem__", "__contains__", "__delitem__", "keys", "data"}

CallTSC(t) ==
    \E op \in TSCOps : \E k \in Keys :
        Dispatch(t, [NoCall EXCEPT !.op = op, !.ns = "TSCDict", !.key = k],
                 IF op = "data" THEN "data_lock" ELSE "tsc_lock")

\* with self.__lock: threading.Lock is not reentrant, the holder waits too
TSCAcquire(t) ==
    /\ pc[t] = "tsc_lock"
    /\ tsc.lock = "free"
    /\ tsc' = [tsc EXCEPT !.lock = t]
    /\ pc' = [pc EXCEPT ![t] = "tsc_body"]
    /\ UNCHANGED <<sets, batch, lock_bound, lock, dict, counter, file_exists,
                   table, events, phase, epoch, calls, seed, reloaded, call,
                   loc, returns>>

\* the body of the with block, up to its first use of another locked member
TSCBody(t) ==
    /\ pc[t] = "tsc_body"
    /\ LET k == call[t].key
           is_new == k \notin DOMAIN tsc.data
       IN  CASE call[t].op = "__getitem__" ->
                    /\ tsc' = IF is_new
                              THEN [tsc EXCEPT
                                       !.data = SetItem(@, k, tsc.counter),
                                       !.counter = @ + 1]
                              ELSE tsc
                    /\ loc' = [loc EXCEPT ![t].is_new = is_new,
                                          ![t].id = tsc'.data[k]]
                    /\ pc' = [pc EXCEPT ![t] = "tsc_release"]
             [] call[t].op = "__contains__" ->
                    /\ loc' = [loc EXCEPT ![t].is_new = ~is_new]
                    /\ pc' = [pc EXCEPT ![t] = "tsc_release"]
                    /\ tsc' = tsc
             [] call[t].op = "__delitem__" ->
                    \* del self.data[k]: the property is read first
                    /\ pc' = [pc EXCEPT ![t] = "data_lock"]
                    /\ UNCHANGED <<tsc, loc>>
             [] OTHER ->
                    /\ pc' = [pc EXCEPT ![t] = "tsc_release"]
                    /\ UNCHANGED <<tsc, loc>>
    /\ UNCHANGED <<sets, batch, lock_bound, lock, dict, counter, file_exists,
                   table, events, phase, epoch, calls, seed, reloaded, call,
                   returns>>

\* leaving the with block and returning
TSCRelease(t) ==
    /\ pc[t] = "tsc_release"
    /\ tsc' = [tsc EXCEPT !.lock = "free"]
    /\ returns' = returns \cup
           {Ret(t, call[t].op, "ok", loc[t].is_new, loc[t].id, call[t].key, 1,
                "none")}
    /\ pc' = [pc EXCEPT ![t] = "idle"]
    /\ UNCHANGED <<sets, batch, lock_bound, lock, dict, counter, file_exists,
                   table, events, phase, epoch, calls, seed, reloaded, call,
                   loc>>

\* the data property: with self.__lock
DataAcquire(t) ==
    /\ pc[t] = "data_lock"
    /\ tsc.lock = "free"
    /\ tsc' = [tsc EXCEPT !.lock = t]
    /\ pc' = [pc EXCEPT ![t] = "data_return"]
    /\ UNCHANGED <<sets, batch, lock_bound, lock, dict, counter, file_exists,
                   table, events, phase, epoch, calls, seed, reloaded, call,
                   loc, returns>>

\* del d[k]
DelItem(d, k) == [x \in (DOMAIN d) \ {k} |-> d[x]]

\* the data property: return self.__data, leaving its with block; in
\* __delitem__ the item is then deleted and the outer block is left
DataReturn(t) ==
    /\ pc[t] = "data_return"
    /\ tsc' = [tsc EXCEPT !.lock = "free",
                          !.data = IF call[t].op = "__delitem__"
                                   THEN DelItem(@, call[t].key) ELSE @]
    /\ returns' = returns \cup
           {Ret(t, call[t].op,
                IF call[t].op = "__delitem__"
                   /\ call[t].key \notin DOMAIN tsc.data
                THEN "KeyError" ELSE "ok",
                FALSE, 0, call[t].key, 1, "none")}
    /\ pc' = [pc EXCEPT ![t] = "idle"]
    /\ UNCHANGED <<sets, batch, lock_bound, lock, dict, counter, file_exists,
                   table, events, phase, epoch, calls, seed, reloaded, call,
                   loc>>

TSCDict(t) ==
    \/ TSCAcquire(t)
    \/ TSCBody(t)
    \/ TSCRelease(t)
    \/ DataAcquire(t)
    \/ DataReturn(t)

NextTSC ==
    \/ \E h \in BOOLEAN : InitializeDatabase(h)
    \/ \E t \in Workers : CallTSC(t)
    \/ \E t \in Workers : TSCDict(t)

TSCSpec == StoreInit /\ [][NextTSC]_vars

\* ================================================================ claims
Quiet == \A t \in Workers : pc[t] = "idle"

\* what callers of the lock-guarded lookup of key k in namespace ns got
LookupReturns(ns, k) ==
    {r \in returns : r.ns = ns /\ r.key = k /\ r.val \in {"id", "none"}}

Injective(d) ==
    \A k1 \in DOMAIN d : \A k2 \in DOMAIN d : k1 # k2 => d[k1] # d[k2]

\* C1: for every lock-guarded namespace and every natural key that was
\* unseen when the process started, once all its callers have returned
\* exactly one of them observed is_new = TRUE, none raised, and all of them
\* received the same surrogate id.
C1_ExactlyOneNew ==
    Quiet =>
        \A ns \in LockedNS : \A k \in Keys :
            LET rs == LookupReturns(ns, k) IN
            (k \notin DOMAIN seed[ns] /\ rs # {}) =>
                /\ \A r \in rs : r.status = "ok"
                /\ Cardinality({r \in rs : r.is_new}) = 1
                /\ \A r1 \in rs : \A r2 \in rs : r1.id = r2.id

\* C2: in every reachable state the key -> id map of every namespace is
\* injective: two different natural keys never hold the same surrogate id.
C2_Injective == \A ns \in Namespaces : Injective(dict[ns])

\* what scrape_authors_type returned for author type k
AtReturns(k) ==
    {r \in returns : r.fn = "scrape_authors_type" /\ r.key = k}

\* C3: scrape_authors_type is one critical section: once all calls have
\* returned, every unseen author type was marked new exactly once and got
\* one id from all callers, and different types got different ids.
C3_AuthorTypeAtomic ==
    Quiet =>
        /\ \A k \in Keys :
               LET rs == AtReturns(k) IN
               (k \notin DOMAIN seed["author_types"] /\ rs # {}) =>
                   /\ Cardinality({r \in rs : r.is_new}) = 1
                   /\ \A r1 \in rs : \A r2 \in rs : r1.id = r2.id
        /\ \A k1 \in Keys : \A k2 \in Keys :
               k1 # k2 =>
                   \A r1 \in AtReturns(k1) : \A r2 \in AtReturns(k2) :
                       r1.id # r2.id

\* C4: after a reload from an existing store every id allocated to a newly
\* seen key is strictly greater than the largest id the store held for that
\* namespace.
C4_NoReissue ==
    reloaded =>
        \A r \in returns :
            (r.status = "ok" /\ r.is_new) => r.id > Max(Range(seed[r.ns]))

\* C5: after a reload, requesting a key that the store holds returns
\* is_new = FALSE and the id stored for that key.
C5_ReloadLookup ==
    reloaded =>
        \A r \in returns :
            r.key \in DOMAIN seed[r.ns] =>
                /\ r.status = "ok"
                /\ ~r.is_new
                /\ r.id = seed[r.ns][r.key]

ZeroReserved ==
    \A ns \in Namespaces :
        /\ NoneKey \in DOMAIN dict[ns]
        /\ dict[ns][NoneKey] = 0
        /\ \A k \in DOMAIN dict[ns] : k # NoneKey => dict[ns][k] # 0
        /\ counter[ns] >= 1

\* C6: in every namespace the null key maps to 0, no other key maps to 0,
\* and within one process the counter starts at 1 and never decreases.
C6_ZeroReserved ==
    [][/\ ZeroReserved'
       /\ epoch' = epoch =>
              \A ns \in Namespaces : counter'[ns] >= counter[ns]]_vars

\* C7: no registry lookup raises: every call of get_url_id and of an
\* extractor's lookup returns an id.
C7_NeverRaises ==
    \A r \in returns : r.val \in {"id", "none"} => r.status = "ok"

\* the "Connection failed" events the retry loop of t's call has written
LoopEvents(w, cid) ==
    Cardinality({i \in DOMAIN events :
        /\ events[i].by = <<w, cid>>
        /\ events[i].process = "Connection failed"
        /\ events[i].message = "traceback"})

ParseReturns == {r \in returns : r.fn = "parse_url" /\ r.status = "ok"}

\* C8: parse_url issues at most num_retrys GETs; no worker is in the retry
\* loop with a 200 response in hand; a returned document means the last GET
\* answered 200 and every GET before it failed; a returned None means
\* exactly num_retrys GETs were issued and all of them failed.
C8_BoundedRetry ==
    /\ \A t \in Workers :
           /\ loc[t].attempts <= call[t].num_retrys
           /\ pc[t] = "loop" => loc[t].page # "200"
           /\ (pc[t] = "after" /\ loc[t].page # "200") =>
                  loc[t].attempts = call[t].num_retrys
    /\ \A r \in ParseReturns :
           /\ r.val = "doc" => r.stat[1] = r.stat[2] + 1
           /\ r.val = "None" =>
                  r.stat[1] = num_retrys /\ r.stat[2] = num_retrys

\* one call returned a document after a failed attempt, another returned
\* None after num_retrys failures
C8_Witness ==
    /\ \E r \in ParseReturns : r.val = "doc" /\ r.stat[2] >= 1
    /\ \E r \in ParseReturns : r.val = "None" /\ r.stat[2] = num_retrys

\* C9: a fetch that failed k times and then got a 200 returns the document
\* with exactly k failure events recorded by it, whatever the kind of the
\* failures.
C9_FlakyFetch ==
    \A r \in ParseReturns :
        r.val = "doc" => LoopEvents(r.w, r.cid) = r.stat[2]

\* C10: every failed attempt, exception or non-200 response, has written one
\* "Connection failed" event and slept once.
C10_FailedAttempt ==
    \A t \in Workers :
        (call[t].op = "parse_url" /\ pc[t] \in {"loop", "after"}) =>
            /\ LoopEvents(t, call[t].cid) = loc[t].failed
            /\ loc[t].sleeps = loc[t].failed

\* C11: when parse_url returns None for a URL that its own get_url_id call
\* registered (is_new), a placeholder row (url_id, url) for it is in the urls
\* table, whatever the kind of the failed attempts.
C11_Placeholder ==
    \A r \in ParseReturns :
        (r.val = "None" /\ r.is_new) =>
            \E i \in DOMAIN table["urls"] : table["urls"][i] = <<r.id, r.key>>

\* the events with the given process that one call has written
EventsOf(w, cid, process) ==
    {i \in DOMAIN events :
        events[i].by = <<w, cid>> /\ events[i].process = process}

\* what the callers of parse_url handed back
PageReturns == {r \in returns : r.fn \in PageOps /\ r.status = "ok"}

\* C12 as stated: after the failed attempts, a final event with process
\* "Couldn't establish connection" is in the log for the URL, whichever
\* caller asked for the page.
C12_EstablishEvent ==
    \A r \in PageReturns :
        r.val = "None" =>
            EventsOf(r.w, r.cid, "Couldn't establish connection") # {}

\* C12: after num_retrys failed attempts parse_url has written exactly one
\* final event with process "Connection failed" (message: the status code or
\* "No Response") and its caller returns failure, for every caller; only
\* the album-review caller then writes one more event, with process
\* "Couldn't stablish connection"; the author and sitemap callers write
\* none.
C12_FinalEvent ==
    \A r \in PageReturns :
        r.val = "None" =>
            /\ r.stat[2] = num_retrys
            /\ Cardinality({i \in EventsOf(r.w, r.cid, "Connection failed") :
                               events[i].message # "traceback"}) = 1
            /\ Cardinality(EventsOf(r.w, r.cid,
                                    "Couldn't stablish connection")) =
                   IF r.fn = "scrape_album_review" THEN 1 ELSE 0

\* an author page could not be fetched
C12_Witness ==
    \E r \in PageReturns :
        /\ r.fn = "author.scrape_json_data"
        /\ r.val = "None"
        /\ r.stat[2] = num_retrys

\* C16: the step in which scrape_album_review comes back from a failed
\* fetch (soup is None) changes no registry namespace, counter or id set,
\* writes no row, returns None, and adds to the event log nothing but the
\* one terminal event of scrape_json_data: no section was attempted.
C16_NothingElse ==
    [][\A t \in Workers :
          (/\ pc[t] = "soup"
           /\ call[t].op = "scrape_album_review"
           /\ loc[t].page # "200"
           /\ pc'[t] # "soup") =>
              /\ dict' = dict
              /\ counter' = counter
              /\ sets' = sets
              /\ table' = table
              /\ Len(events') = Len(events) + 1
              /\ SubSeq(events', 1, Len(events)) = events
              /\ events'[Len(events')].process =
                     "Couldn't stablish connection"
              /\ \A r \in returns' \ returns : r.val = "None"]_vars

\* a review page could not be fetched and scrape_album_review has returned
C16_Witness ==
    \E r \in PageReturns :
        /\ r.fn = "scrape_album_review"
        /\ r.val = "None"
        /\ r.fails = {}
        /\ EventsOf(r.w, r.cid, "Couldn't stablish connection") # {}

\* the reviews whose page was fetched and whose sections were run
SectionRuns ==
    {r \in PageReturns : r.fn = "scrape_album_review" /\ r.val = "done"}

\* C17: on a fetched review page, a section whose extractor raises has
\* exactly one "Failed at parsing {section} data" event and nothing of it
\* reaches the insert loop; every other section is still attempted (its
\* extractor returns and its lists reach the insert loop) and has no
\* parsing event, whichever sections fail.
C17_SectionIsolation ==
    \A r \in SectionRuns : \A sec \in SectionSet :
        LET parsing == EventsOf(r.w, r.cid, ParsingProcess(sec))
            inserting == EventsOf(r.w, r.cid, InsertingProcess(sec))
        IN  IF sec \in r.fails
            THEN Cardinality(parsing) = 1 /\ inserting = {}
            ELSE parsing = {} /\ Cardinality(inserting) = ListsOf(sec)

\* every second section raised on a page, and the sections between and
\* after them were still run
C17_Witness ==
    \E r \in SectionRuns :
        /\ r.fails = {"albums", "artists", "keywords"}
        /\ \A sec \in r.fails :
               EventsOf(r.w, r.cid, ParsingProcess(sec)) # {}
        /\ \A sec \in SectionSet \ r.fails :
               EventsOf(r.w, r.cid, InsertingProcess(sec)) # {}

\* C18: a section whose extractor succeeded has its records in the store
\* (the label the review extractor registered has a row in the labels
\* table) and no failure event of that section is in the log.
C18_Persisted ==
    \A r \in SectionRuns : \A sec \in SectionSet \ r.fails :
        /\ EventsOf(r.w, r.cid, InsertingProcess(sec)) = {}
        /\ sec = "review" =>
               \E i \in DOMAIN table["labels"] :
                   table["labels"][i][2] = PageKey

\* the terminal events the log holds for the item with this url_id
TerminalCount(id) ==
    Cardinality({i \in DOMAIN events :
        /\ events[i].url_id = id
        /\ events[i].process = "Couldn't stablish connection"})

\* the calls of scrape_album_review for an item that have returned
PassesOver(key) ==
    Cardinality({r \in PageReturns : r.key = key /\ r.status = "ok"})

\* no GET of the batch has been answered so far
AlwaysFailed ==
    /\ \A r \in PageReturns : r.val = "None"
    /\ \A t \in Workers : loc[t].page = "None"

C14_Ceiling ==
    /\ batch.pass <= 1 + MaxRetries
    /\ Len(batch.ran) = batch.pass
    /\ batch.stage = "retry" =>
           /\ batch.retries > 0
           /\ batch.retries = MaxRetries - (batch.pass - 2)
    /\ batch.stage = "done" =>
           /\ batch.retries >= 0
           /\ batch.retries = MaxRetries - (batch.pass - 1)

\* every GET failed, the ceiling was reached and the driver has stopped
C14_Witness ==
    /\ AlwaysFailed
    /\ batch.stage = "done"
    /\ batch.retries = 0
    /\ batch.pass = 1 + MaxRetries
    /\ FailedUrls # {}

\* C15: no retry pass runs an item that an earlier pass has fetched: once
\* scrape_album_review has fetched the page of an item and run its
\* sections, the item is in no later pass.
C15_RecoveredNotRerun ==
    \A r \in SectionRuns :
        /\ \A row \in batch.todo : row[2] # r.key
        /\ \A t \in Workers :
               (pc[t] # "idle" /\ call[t].op = "scrape_album_review") =>
                   call[t].key # r.key

StoreReturns == {r \in returns : r.fn = "insert_named_tuples"}

\* C19: insert_named_tuples always comes back normally, having gone
\* through the whole list: no exception of a single record ends the batch.
C19_NeverAborted ==
    \A r \in StoreReturns : r.status = "ok" /\ r.idx = MaxRows

\* C20: every call of execute_command comes to an end: a thread that is in
\* execute_command leaves it, by returning or by raising.
C20_Terminates ==
    \A t \in Workers :
        (pc[t] = "execute") ~> (pc[t] \notin {"execute", "ec_sleep"})

\* C21: the step that meets a None record, as the only argument of
\* insert_named_tuple or as an element of the list of insert_named_tuples,
\* leaves every table and the event log unchanged, never enters
\* execute_command and raises nothing: the call goes on or returns normally.
C21_NoneIsNoOp ==
    [][\A t \in Workers :
          (/\ pc[t] \in {"one", "rows"}
           /\ loc'[t].row = loc[t].row + 1
           /\ call[t].rows[loc[t].row + 1] = NoneRow) =>
              /\ table' = table
              /\ events' = events
              /\ pc'[t] \in {"rows", "idle"}
              /\ \A r \in returns' \ returns : r.status = "ok"]_vars

\* insert_named_tuple(None) has returned, and a list with a None element
\* has been gone through to its end
C21_Witness ==
    /\ \E r \in returns : \E t \in Workers :
           /\ r.fn = "insert_named_tuple" /\ r.status = "ok"
           /\ call[t].cid = r.cid /\ call[t].rows = <<NoneRow>>
           /\ table = NullRows /\ events = <<>>

PoolReturns == {r \in returns : r.fn = "multithread_scrape"}

\* item i of the list is in the queue, in a thread, or done
Queued(i) == \E it \in batch.todo : it[1] = i

Running(i) ==
    \E t \in Workers :
        pc[t] # "idle" /\ call[t].op = "multithread_scrape" /\ call[t].url_id = i

\* C22: whatever items of the list have a handler that raises, and in every
\* interleaving, no item is dropped: each item is queued, being run or has
\* been run, and when the pool is left every item has been run, the
\* handler of every item that does not raise to its end.
C22_ItemsIsolated ==
    batch.stage \in {"pool", "pool_done"} =>
        \A i \in 1..MaxItems :
            /\ Queued(i) \/ Running(i) \/ \E r \in PoolReturns : r.idx = i
            /\ batch.stage = "pool_done" =>
                   \E r \in PoolReturns :
                       /\ r.idx = i
                       /\ r.key = "ok" => r.status = "ok" /\ r.val = "done"

\* the pool is left, the handlers of the first two items raised, one caught
\* by the wrapper and one not, and the handler of the last item ran to its end
C22_Witness ==
    /\ batch.stage = "pool_done"
    /\ \E r \in PoolReturns : r.idx = 1 /\ r.val = "printed"
    /\ \E r \in PoolReturns : r.idx = 2 /\ r.status = "SystemExit"
    /\ \E r \in PoolReturns : r.idx = MaxItems /\ r.val = "done"

\* C23: after a fault that escaped a handler and was caught by the wrapper
\* of the orchestrator, the event log holds an entry that identifies the item.
C23_FaultLogged ==
    \A r \in PoolReturns :
        r.val = "printed" =>
            \E i \in DOMAIN events : events[i].url_id = r.idx

ExtractReturns(fn) == {r \in returns : r.fn = fn}

\* C24: for a payload without the author id field scrape_authors_data
\* returns one Review_Authors row, of the review and author id 0, no Author
\* record and no URL record.
C24_NoAuthorIds ==
    \A r \in ExtractReturns("scrape_authors_data") :
        ~r.key.field.present =>
            /\ r.status = "ok"
            /\ r.val.rows = << <<ReviewId, "0">> >>
            /\ r.val.new = <<>>
            /\ r.val.urls = <<>>

\* a payload without author ids has been extracted, after one with them
C24_Witness ==
    /\ \E r \in ExtractReturns("scrape_authors_data") :
           ~r.key.field.present /\ r.cid > 1
    /\ \E r \in ExtractReturns("scrape_authors_data") :
           r.key.field.present /\ r.val.new # <<>>

\* C25: for a payload without a label list scrape_review_data returns
\* exactly one Review_Labels row, of the review and label id 0, and no
\* Label record, whatever the registry holds.
C25_OneNullLabel ==
    \A r \in ExtractReturns("scrape_review_data") :
        ~r.key.field.present =>
            /\ r.status = "ok"
            /\ r.val.rows = << <<ReviewId, 0>> >>
            /\ r.val.new = <<>>

\* C26: for a payload without the entities (keywords) section the extractor
\* returns one junction row, of the review, id 0 and a null score, and no
\* entity (keyword) record, and the call leaves the registry as it was.
C26_AbsentSection ==
    [][\A r \in returns' \ returns :
          (r.fn \in {ScoredFn("entities"), ScoredFn("keywords")}
              /\ ~r.key.field.present) =>
              /\ r.status = "ok"
              /\ r.val.rows = << <<ReviewId, 0, NoneKey>> >>
              /\ r.val.new = <<>>
              /\ dict' = dict
              /\ counter' = counter]_vars

\* both extractors have been applied to a payload without their section
C26_Witness ==
    /\ \E r \in ExtractReturns(ScoredFn("entities")) :
           ~r.key.field.present /\ r.val.rows # <<>>
    /\ \E r \in ExtractReturns(ScoredFn("keywords")) :
           ~r.key.field.present /\ r.val.rows # <<>>

PageScrapes == ExtractReturns("scrape_authors_page")

\* the cleaned title at path i of the payload of r, "" when there is none
CleanedType(r, i) ==
    LET f == IF i = 1 THEN r.key.pl.t1 ELSE r.key.pl.t2
    IN  IF f.present THEN reformat_author_type(f.v) ELSE ""

\* the author's own name as the page gives it, cleaned and in lower case
OwnName(r) ==
    IF r.key.pl.name.present
    THEN Lower(reformat_author_type(r.key.pl.name.v)) ELSE ""

\* C28: a title that after cleaning is longer than 35 characters, or is a
\* denylisted value, or contains or is contained by the author's own name,
\* is recorded as author type id 0: the scrape gives it no registry id and
\* stores no author type row with it.
C28_TypeFiltered ==
    [][\A r \in returns' \ returns :
          (r.fn = "scrape_authors_page" /\ r.val.stage = "done") =>
              \A i \in 1..2 :
                  LET at == CleanedType(r, i)
                  IN  (at # "" /\
                       (\/ Len(at) > 35
                        \/ at \in {"Ars Technica", "Dice For Any Occasion",
                                   "\"Made For Love\" By Alissa Nutting",
                                   "Review: Motorola Droid Razr Maxx",
                                   "Megan Buerger | Staff |"}
                        \/ (OwnName(r) # "" /\
                               (Contains(Lower(at), OwnName(r))
                                \/ Contains(OwnName(r), Lower(at)))))) =>
                          /\ r.val.ids[i] = 0
                          /\ ~r.val.news[i]
                          /\ at \notin DOMAIN dict'["author_types"]
                                       \ DOMAIN dict["author_types"]
                          /\ \A j \in DOMAIN table'["author_types"] :
                                 j > Len(table["author_types"]) =>
                                     table'["author_types"][j][2] # at]_vars

\* a page with a title of 37 characters and a valid second title has been
\* scraped: the first is recorded as 0, the second got a registry id
C28_Witness ==
    \E r \in PageScrapes :
        /\ r.val.stage = "done"
        /\ Len(CleanedType(r, 1)) > 35
        /\ r.val.ids[1] = 0
        /\ r.val.ids[2] > 0

\* C29: every scrape of an author page with its payload has recorded one
\* Author_Type_Evolution row: after n scrapes the table holds n rows.
C29_OneSnapshotPerScrape ==
    Len(table["author_type_evolution"]) = Cardinality(PageScrapes)

\* C30: when neither location of the payload carries a bio,
\* scrape_authors_bio returns a record with a null bio and the scrape
\* goes on to the author types.
C30_NullBioContinues ==
    \A r \in PageScrapes :
        (~r.key.pl.bio1.present /\ ~r.key.pl.bio2.present) =>
            r.val.stage = "done" /\ ~r.val.bio.present

\* C31: the store holds at most one Author_Bio row per author: a second
\* scrape of the author's page replaces the row of the first.
C31_OneBioPerAuthor ==
    \A i, j \in DOMAIN table["author_bios"] :
        table["author_bios"][i][1] = table["author_bios"][j][1] => i = j

\* the value on the key path of the document of r is not a dict at some
\* segment that is still to be followed
RECURSIVE WrongShape(_, _)

WrongShape(v, keys) ==
    /\ keys # <<>>
    /\ \/ v.kind # "dict"
       \/ /\ \E p \in v.map : p[1] = Head(keys)
          /\ WrongShape((CHOOSE p \in v.map : p[1] = Head(keys))[2],
                        Tail(keys))

\* C32: dict_lookup raises no exception: for a missing segment and for an
\* intermediate value that is not a mapping it returns None.
C32_LookupNeverRaises ==
    \A r \in ExtractReturns("dict_lookup") :
        /\ r.status = "ok"
        /\ WrongShape(r.key.data, r.key.keys) => r.val = JsonNull

\* the calls of a set extractor for id k that have returned
SetReturns(ns, k) == {r \in returns : r.fn = SetFn(ns) /\ r.key = k}

SetInFlight(ns, k) ==
    \E t \in Workers : pc[t] # "idle" /\ call[t].ns = ns /\ call[t].key = k

\* C34: when the extractions that saw an album id or author id have all
\* returned, exactly one of them returned the new Album / Author record.
C34_CreatedOnce ==
    \A ns \in SetNS : \A k \in EntityIds :
        (SetReturns(ns, k) # {} /\ ~SetInFlight(ns, k)) =>
            Cardinality({r \in SetReturns(ns, k) : r.val = "record"}) = 1

\* the namespaces whose entity rows only the section extractors hand over
EntityNS == {"labels", "genres", "entities", "keywords"}

\* C36: once all workers are finished, every id that the registry holds for
\* a label, genre, entity or keyword has its entity row in the store.
C36_IssuedIdsHaveRows ==
    (phase = "run" /\ AllIdle) =>
        \A ns \in EntityNS : \A k \in DOMAIN dict[ns] :
            \E i \in DOMAIN table[ns] : table[ns][i] = <<dict[ns][k], k>>

\* C37: once all workers are finished, every URL that holds a registry id
\* has a row in the urls table.
C37_UrlIdsHaveRows ==
    (phase = "run" /\ AllIdle) =>
        \A u \in DOMAIN dict["urls"] :
            \E i \in DOMAIN table["urls"] :
                table["urls"][i] = <<dict["urls"][u], u>>

\* C38: the urls table holds at most one row per url_id, also for a URL
\* that the sitemap lists more than once.
C38_OneRowPerUrlId ==
    \A i, j \in DOMAIN table["urls"] :
        table["urls"][i][1] = table["urls"][j][1] => i = j

\* the placeholder rows of the URL of a parse_url call that has returned
PlaceholderRows(r) ==
    {i \in DOMAIN table["urls"] : table["urls"][i] = <<r.id, r.key>>}

\* C39: a call of parse_url has inserted at most one placeholder row for
\* its URL, however many of its attempts failed.
C39_OnePlaceholderPerCall ==
    \A r \in returns :
        r.fn = "parse_url" => Cardinality(PlaceholderRows(r)) <= 1

\* the positions at which a worker waits for the lock of the TSCDict
TSCWaits == {"tsc_lock", "data_lock"}

\* C40: no operation of the TSCDict blocks for ever: no worker waits for
\* the lock while holding it itself (the lock is not reentrant and only
\* its holder goes on to release it).
C40_NeverWaitsForOwnLock ==
    \A t \in Workers : ~(pc[t] \in TSCWaits /\ tsc.lock = t)

\* C35: in a running process, outside the critical section, the counter of
\* each namespace is one more than the largest id of its map, the ids are
\* exactly 0..counter-1 and no two keys hold one id.
C35_CounterTracksMap ==
    (phase = "run" /\ lock = "free") =>
        \A ns \in LockedNS :
            /\ counter[ns] = Max(Range(dict[ns])) + 1
            /\ Range(dict[ns]) = 0..(counter[ns] - 1)
            /\ \A k1, k2 \in DOMAIN dict[ns] :
                   dict[ns][k1] = dict[ns][k2] => k1 = k2

\* the section extractors of album.py
SectionExtractors ==
    {"scrape_review_data", "scrape_authors_data", "scrape_albums_data",
     "scrape_artists_data", "scrape_entities_data", "scrape_keywords_data"}

\* C33: a call of a section extractor leaves every table of the store and
\* the event log as they were, whether it returns or raises; what it
\* changes is the registry.
C33_NoStoreAccess ==
    [][(\E r \in returns' \ returns : r.fn \in SectionExtractors) =>
          /\ table' = table
          /\ events' = events
          /\ file_exists' = file_exists]_vars

\* extractors have been called, one returned and one raised, the
\* registry has changed and the store is as initialize_database left it
C33_Witness ==
    /\ \E r \in returns : r.fn \in SectionExtractors /\ r.status # "ok"
    /\ \E r \in returns : r.fn \in SectionExtractors /\ r.status = "ok"
    /\ dict # ImportDict
    /\ table = NullRows
    /\ events = <<>>
====
